---- MODULE Spec2Model ----
(***************************************************************************)
(* Model of the content layer of ipfs_gin_example: the node codec          *)
(* (pkg/merkledag/node.go), the block store (pkg/storage/badger.go), the   *)
(* chunker (pkg/merkledag/chunker.go), the DAG builder, path walker, path  *)
(* mutator and file reader (pkg/merkledag/dag.go) and the handlers of      *)
(* pkg/api/handlers.go that drive them; and of the naming layer of the     *)
(* contract-backed server: the contract client and resolver (pkg/contract, *)
(* pkg/resolver) with the handlers of pkg/api/uploadHandler.go and         *)
(* downloadHandler.go.                                                     *)
(*                                                                         *)
(* Go strings (paths, link names) are sequences of one-character strings,  *)
(* so "" is << >>.  Byte slices are sequences of small naturals.  A CID is *)
(* the SHA-256 of a node's JSON serialisation; the hash is modelled as an  *)
(* injective tag around the serialisation (no collisions).  Link names are *)
(* valid UTF-8, as the data model of the node requires.                    *)
(***************************************************************************)
EXTENDS Integers, Sequences, FiniteSets, TLC

VARIABLES
    chunkSize,   \* Chunker.chunkSize, fixed by NewChunker
    store,       \* BadgerStore contents: key (CID) -> value (serialised node)
    domainMap,   \* Resolver.domainMap: domain -> root CID
    cur,         \* the request being served, or the last one served
    pending,     \* effects the request has still to perform, in program order
    written,     \* CIDs the request has put into the store so far
    prevStore,   \* store when the request started
    prevMap,     \* domainMap when the request started
    nops,        \* number of requests started
    registry,    \* the naming contract: name -> owner and CID (contract-backed resolver)
    cache        \* Resolver.cache of the contract-backed resolver: key -> CID

vars == <<chunkSize, store, domainMap, cur, pending, written, prevStore, prevMap, nops,
          registry, cache>>

-----------------------------------------------------------------------------
(* Bounds *)

MaxOps == 2          \* requests per behaviour of Spec
MaxChunkSize == 2    \* chunk sizes 1..MaxChunkSize
MaxSmallLen == 3     \* short request bodies of SpecFile have at most this many bytes
MaxTreeOps == 2      \* requests per behaviour of SpecTree
MaxBuilds == 2       \* requests per behaviour of SpecBuild
MaxNameOps == 3      \* requests and registrations per behaviour of SpecNames
MaxCacheOps == 4     \* requests per behaviour of SpecCache
MaxPublishers == 3   \* concurrent calls of UpdateMapping in SpecRace
MaxSiteOps == 3      \* requests per behaviour of SpecSite
MaxPutNameOps == 3   \* requests per behaviour of SpecPutName
MaxPutters == 2      \* concurrent PUT requests in SpecPuts

(* Program constants *)

Fanout == 174

-----------------------------------------------------------------------------
(* Node codec: node.go *)

EmptyNode == [Data |-> << >>, Links |-> << >>]

\* the sequence s itself, with every element evaluated once (a slice literal)
Slice(s) == SubSeq(s, 1, Len(s))

Link(name, hash, size) == [Name |-> name, Hash |-> hash, Size |-> size]

\* json.Marshal of a Link: `name` has omitempty, `hash` and `size` are always written
MarshalLink(l) ==
    [k \in (IF Len(l.Name) = 0 THEN {} ELSE {"name"}) \cup {"hash", "size"} |->
        CASE k = "name" -> l.Name
          [] k = "hash" -> l.Hash
          [] k = "size" -> l.Size]

\* json.Marshal of a Node: `data` and `links` have omitempty
Marshal(n) ==
    [k \in (IF Len(n.Data) = 0 THEN {} ELSE {"data"})
           \cup (IF Len(n.Links) = 0 THEN {} ELSE {"links"}) |->
        IF k = "data" THEN n.Data
        ELSE Slice([i \in 1..Len(n.Links) |-> MarshalLink(n.Links[i])])]

UnmarshalLink(j) ==
    [Name |-> IF "name" \in DOMAIN j THEN j["name"] ELSE << >>,
     Hash |-> j["hash"],
     Size |-> j["size"]]

\* json.Unmarshal into a fresh Node: absent fields stay nil
Unmarshal(b) ==
    [Data  |-> IF "data" \in DOMAIN b THEN b["data"] ELSE << >>,
     Links |-> IF "links" \in DOMAIN b
               THEN Slice([i \in 1..Len(b["links"]) |-> UnmarshalLink(b["links"][i])])
               ELSE << >>]

\* sha256.Sum256 + hex.EncodeToString, taken as injective
Sha256Hex(bytes) == <<"sha256", bytes>>

Cid(n) == Sha256Hex(Marshal(n))

-----------------------------------------------------------------------------
(* Block store: badger.go *)

\* BadgerStore.Put: txn.Set overwrites whatever the key held
StorePut(st, key, value) == (key :> value) @@ st

\* BadgerStore.Get: badger.ErrKeyNotFound is replaced by a new error "block not found"
StoreGet(st, key) ==
    IF key \in DOMAIN st
    THEN [err |-> "nil", data |-> st[key]]
    ELSE [err |-> "block not found", data |-> << >>]

\* errors.Is(err, badger.ErrKeyNotFound)
IsErrKeyNotFound(err) == err = "badger.ErrKeyNotFound"

-----------------------------------------------------------------------------
(* DAGBuilder.AddNode / GetNode: dag.go.  A context ctx is the store together *)
(* with the log of the nodes handed to AddNode so far, in program order.      *)

Ctx(st) == [st |-> st, log |-> << >>]

\* variant: the key leaves the link sizes out, so that a node stored again with
\* its sizes filled in replaces the block stored with the placeholder sizes
AddNodeKeyedWithoutSizes(ctx, node) ==
    LET key == Cid([Data |-> node.Data,
                    Links |-> Slice([i \in 1..Len(node.Links) |->
                                  Link(node.Links[i].Name, node.Links[i].Hash, 0)])])
    IN  [cid |-> key,
         ctx |-> [st |-> StorePut(ctx.st, key, Marshal(node)), log |-> Append(ctx.log, node)]]

AddNode(ctx, node) ==
    [cid |-> Cid(node),
     ctx |-> [st  |-> StorePut(ctx.st, Cid(node), Marshal(node)),
              log |-> Append(ctx.log, node)]]

GetNode(st, cid) ==
    LET r == StoreGet(st, cid)
    IN  IF r.err # "nil"
        THEN [err |-> r.err, node |-> EmptyNode]
        ELSE [err |-> "nil", node |-> Unmarshal(r.data)]

-----------------------------------------------------------------------------
(* Chunker.Chunk over a bytes.Reader: chunker.go *)

Min(a, b) == IF a < b THEN a ELSE b

\* bytes.Reader.Read(buf) with len(buf) = k copies min(k, remaining) bytes and
\* returns 0, io.EOF once nothing remains: the byte slices of the successive
\* calls, up to and including the call that reports io.EOF
ReaderReads(b, k) ==
    Slice([i \in 1..((Len(b) + k - 1) \div k) + 1 |->
        SubSeq(b, (i - 1) * k + 1, Min(i * k, Len(b)))])

NonEmptyRead(data) == Len(data) > 0

\* Chunker.Chunk: one leaf for every Read that returned n > 0 bytes, in order
Chunk(reads) ==
    LET kept == SelectSeq(reads, NonEmptyRead)
    IN  Slice([i \in 1..Len(kept) |-> [Data |-> kept[i], Links |-> << >>]])

-----------------------------------------------------------------------------
(* DAGBuilder.CalculateNodeSize *)

\* the loops over a slice are unfolded by halving the index range, first half
\* first, which keeps the order of the iterations

\* lines 321-334: totalSize += link.Size over links[lo..hi]
RECURSIVE SumSizes(_, _, _)
SumSizes(links, lo, hi) ==
    IF lo > hi THEN 0
    ELSE IF lo = hi THEN links[lo].Size
    ELSE LET mid == (lo + hi) \div 2
         IN  SumSizes(links, lo, mid) + SumSizes(links, mid + 1, hi)

\* variant: the sizes of the links are left out
CalculateNodeSizeOfDataOnly(node) == Len(node.Data)

CalculateNodeSize(node) ==
    IF Len(node.Data) > 0 THEN Len(node.Data) ELSE SumSizes(node.Links, 1, Len(node.Links))

-----------------------------------------------------------------------------
(* DAGBuilder.BuildDAGFromLeaves *)

\* AddNode for nodes[lo], ..., nodes[hi], in this order (the test on `first`
\* only makes the first half be evaluated before the second half starts)
RECURSIVE AddNodes(_, _, _, _)
AddNodes(ctx, nodes, lo, hi) ==
    IF lo > hi THEN ctx
    ELSE IF lo = hi THEN AddNode(ctx, nodes[lo]).ctx
    ELSE LET mid == (lo + hi) \div 2
             first == AddNodes(ctx, nodes, lo, mid)
         IN  IF Len(first.log) >= 0 THEN AddNodes(first, nodes, mid + 1, hi) ELSE ctx

\* lines 86-115: store every child of the group, link it with the placeholder size 0
AddChildren(ctx, group) ==
    [ctx |-> AddNodes(ctx, group, 1, Len(group)),
     links |-> Slice([i \in 1..Len(group) |-> Link(<< >>, Cid(group[i]), 0)])]

\* variant: the links keep the placeholder size 0
SizedLinksLeftAtPlaceholder(st, links) == links

\* lines 127-137: fetch every child again and write its size into the link
\* (the children were stored a moment ago, so GetNode does not fail here)
SizedLinks(st, links) ==
    Slice([i \in 1..Len(links) |->
        Link(links[i].Name, links[i].Hash, CalculateNodeSize(GetNode(st, links[i].Hash).node))])

\* Values that the Go code holds in a local variable are passed on as operator
\* arguments, so that each call is evaluated (and counted) once.

\* variant: the parent is stored before the children it links to
BuildGroupParentFirst(ctx, group) ==
    LET links == Slice([i \in 1..Len(group) |-> Link(<< >>, Cid(group[i]), 0)])
        parentNode == [Data |-> << >>, Links |-> links]
        p == AddNode(ctx, parentNode)
        c == AddChildren(p.ctx, group)
        updatedParentNode == [Data |-> << >>, Links |-> SizedLinks(c.ctx.st, links)]
        u == AddNode(c.ctx, updatedParentNode)
    IN  [ctx |-> u.ctx, node |-> updatedParentNode]

\* lines 139-147: the copy of the parent with the sizes filled in is stored (its
\* CID differs from that of parentNode) and goes to the next level
StoreUpdatedParent(ctx, updatedParentNode) ==
    [ctx |-> AddNode(ctx, updatedParentNode).ctx, node |-> updatedParentNode]

\* lines 121-137: ctx is the builder after AddNode(parentNode)
UpdateParent(ctx, links) ==
    StoreUpdatedParent(ctx, [Data |-> << >>, Links |-> SizedLinks(ctx.st, links)])

\* lines 117-119: parentNode is stored with the placeholder sizes
StoreParent(c) ==
    UpdateParent(AddNode(c.ctx, [Data |-> << >>, Links |-> c.links]).ctx, c.links)

\* lines 82-147: one group
BuildGroup(ctx, group) == StoreParent(AddChildren(ctx, group))

\* lines 77-148: the groups of one level, Fanout nodes at a time
RECURSIVE BuildLevel(_, _, _, _)

\* line 147 and the next iteration: g is the group just built
NextGroup(g, nodes, i, nextLevelNodes) ==
    BuildLevel(g.ctx, nodes, i + Fanout, Append(nextLevelNodes, g.node))

\* variant: the group's upper bound is one past i + fanout
BuildLevelOverlapping(ctx, nodes, i, nextLevelNodes) ==
    IF i >= Len(nodes) THEN [ctx |-> ctx, nodes |-> nextLevelNodes]
    ELSE NextGroup(BuildGroup(ctx, SubSeq(nodes, i + 1, Min(i + Fanout + 1, Len(nodes)))),
                   nodes, i, nextLevelNodes)

BuildLevel(ctx, nodes, i, nextLevelNodes) ==
    IF i >= Len(nodes) THEN [ctx |-> ctx, nodes |-> nextLevelNodes]
    ELSE NextGroup(BuildGroup(ctx, SubSeq(nodes, i + 1, Min(i + Fanout, Len(nodes)))),
                   nodes, i, nextLevelNodes)

\* lines 72-150
RECURSIVE BuildLevels(_, _)

\* line 149: currentLevelNodes = nextLevelNodes
NextLevel(l) == BuildLevels(l.ctx, l.nodes)

BuildLevels(ctx, currentLevelNodes) ==
    IF Len(currentLevelNodes) <= 1 THEN [ctx |-> ctx, nodes |-> currentLevelNodes]
    ELSE NextLevel(BuildLevel(ctx, currentLevelNodes, 0, << >>))

\* the results of BuildDAGFromLeaves: a is what the last AddNode returned
BuildResult(a, size) == [err |-> "nil", cid |-> a.cid, size |-> size, ctx |-> a.ctx]

\* lines 153-164: the one node left is the root; it is stored (again)
StoreRoot(l) == BuildResult(AddNode(l.ctx, l.nodes[1]), CalculateNodeSize(l.nodes[1]))

BuildDAGFromLeaves(ctx, leaves) ==
    IF Len(leaves) = 0
    THEN BuildResult(AddNode(ctx, EmptyNode), 0)
    ELSE StoreRoot(BuildLevels(ctx, leaves))

-----------------------------------------------------------------------------
(* DAGBuilder.GetFileData *)

\* lines 267-283: one link of a node that is not a single chunk
ReadChunk(st, link) ==
    LET g == GetNode(st, link.Hash)
    IN  IF g.err # "nil" THEN [err |-> "failed to get chunk node", data |-> << >>]
        ELSE IF Len(g.node.Data) = 0 \/ Len(g.node.Links) > 0
             THEN [err |-> "not a data chunk", data |-> << >>]
             ELSE [err |-> "nil", data |-> g.node.Data]

\* lines 265-284: the loop over links[lo..hi]; the first error ends it
RECURSIVE ReadChunks(_, _, _, _)
ReadChunks(st, links, lo, hi) ==
    IF lo > hi THEN [err |-> "nil", data |-> << >>]
    ELSE IF lo = hi THEN ReadChunk(st, links[lo])
    ELSE LET mid == (lo + hi) \div 2
             l == ReadChunks(st, links, lo, mid)
             r == ReadChunks(st, links, mid + 1, hi)
         IN  IF l.err # "nil" THEN l
             ELSE IF r.err # "nil" THEN r
             ELSE [err |-> "nil", data |-> l.data \o r.data]

GetFileData(st, fileNodeCID) ==
    LET g == GetNode(st, fileNodeCID)
    IN  IF g.err # "nil" THEN [err |-> "failed to get file node", data |-> << >>]
        ELSE IF Len(g.node.Data) > 0 /\ Len(g.node.Links) = 0
             THEN [err |-> "nil", data |-> g.node.Data]
             ELSE IF Len(g.node.Links) = 0 /\ Len(g.node.Data) = 0
                  THEN [err |-> "nil", data |-> << >>]
                  ELSE ReadChunks(st, g.node.Links, 1, Len(g.node.Links))

-----------------------------------------------------------------------------
(* splitPath and DAGBuilder.ResolvePath *)

Slash == "/"

\* strings.TrimPrefix(path, "/") and strings.TrimSuffix(path, "/"): one slash at most
TrimPrefix(p) == IF Len(p) > 0 /\ p[1] = Slash THEN SubSeq(p, 2, Len(p)) ELSE p
TrimSuffix(p) == IF Len(p) > 0 /\ p[Len(p)] = Slash THEN SubSeq(p, 1, Len(p) - 1) ELSE p

\* strings.Split(p, "/"): one more element than there are slashes
RECURSIVE Split(_, _, _, _)
Split(p, i, current, parts) ==
    IF i > Len(p) THEN Append(parts, current)
    ELSE IF p[i] = Slash THEN Split(p, i + 1, << >>, Append(parts, current))
         ELSE Split(p, i + 1, Append(current, p[i]), parts)

splitPath(path) ==
    IF path = <<Slash>> \/ path = << >> THEN << >>
    ELSE LET trimmed == TrimSuffix(TrimPrefix(path))
         IN  IF trimmed = << >> THEN << >> ELSE Split(trimmed, 1, << >>, << >>)

\* index of the first link named `name`, 0 when there is none
FirstLink(links, name) ==
    IF \E i \in 1..Len(links) : links[i].Name = name
    THEN CHOOSE i \in 1..Len(links) :
            /\ links[i].Name = name
            /\ \A j \in 1..(i - 1) : links[j].Name # name
    ELSE 0

\* lines 202-224: the walk over the components
RECURSIVE ResolveLoop(_, _, _, _)

\* variant: the walk without the `continue` of line 204: an empty component is looked up
ResolveLoopKeepingEmpty(st, currentNodeCID, comps, i) ==
    IF i > Len(comps) THEN [err |-> "nil", cid |-> currentNodeCID]
    ELSE LET g == GetNode(st, currentNodeCID)
         IN  IF g.err # "nil" THEN [err |-> "failed to get node", cid |-> << >>]
             ELSE LET k == FirstLink(g.node.Links, comps[i])
                  IN  IF k = 0 THEN [err |-> "path component not found", cid |-> << >>]
                      ELSE ResolveLoop(st, g.node.Links[k].Hash, comps, i + 1)

ResolveLoop(st, currentNodeCID, comps, i) ==
    IF i > Len(comps) THEN [err |-> "nil", cid |-> currentNodeCID]
    ELSE IF comps[i] = << >> THEN ResolveLoop(st, currentNodeCID, comps, i + 1)
    ELSE LET g == GetNode(st, currentNodeCID)
         IN  IF g.err # "nil" THEN [err |-> "failed to get node", cid |-> << >>]
             ELSE LET k == FirstLink(g.node.Links, comps[i])
                  IN  IF k = 0 THEN [err |-> "path component not found", cid |-> << >>]
                      ELSE ResolveLoop(st, g.node.Links[k].Hash, comps, i + 1)

\* variant: a walk that also fetches the node it arrives at
ResolvePathFetchingTarget(st, rootCID, path) ==
    LET r == ResolveLoop(st, rootCID, splitPath(path), 1)
    IN  IF r.err = "nil" /\ GetNode(st, r.cid).err # "nil"
        THEN [err |-> "failed to get node", cid |-> << >>]
        ELSE r

ResolvePath(st, rootCID, path) ==
    LET pathComponents == splitPath(path)
    IN  IF Len(pathComponents) = 0 /\ (path = <<Slash>> \/ path = << >>)
        THEN [err |-> "nil", cid |-> rootCID]
        ELSE ResolveLoop(st, rootCID, pathComponents, 1)

-----------------------------------------------------------------------------
(* DAGBuilder.PutNodeAtPath and updateDirRecursive *)

\* variant: the new link list is built afresh instead of copied from the old one
ReplaceOrAppendDroppingSiblings(links, name, newLink) == <<newLink>>

\* variant: the new link is appended even when a link of that name exists
ReplaceOrAppendAlwaysAppending(links, name, newLink) == Append(links, newLink)

\* lines 395-408 and 486-499: copy the links, replacing every link called `name`
\* by `newLink`, or appending `newLink` when there is none
ReplaceOrAppend(links, name, newLink) ==
    LET copied == Slice([i \in 1..Len(links) |->
                            IF links[i].Name = name THEN newLink ELSE links[i]])
    IN  IF FirstLink(links, name) = 0 THEN Append(copied, newLink) ELSE copied

RECURSIVE updateDirRecursive(_, _, _, _, _, _)
updateDirRecursive(ctx, currentDirCID, parentPathComponents, itemName, targetCID, targetSize) ==
    LET g == GetNode(ctx.st, currentDirCID) IN
    IF Len(parentPathComponents) = 0
    THEN \* lines 376-418: the direct parent of the item
         IF g.err # "nil" /\ ~IsErrKeyNotFound(g.err)
         THEN [err |-> "failed to get parent directory node", cid |-> << >>, ctx |-> ctx]
         ELSE LET parentDirNode == IF g.err # "nil" THEN EmptyNode ELSE g.node
                  newParentDirNode ==
                      [Data |-> << >>,
                       Links |-> ReplaceOrAppend(parentDirNode.Links, itemName,
                                                 Link(itemName, targetCID, targetSize))]
                  a == AddNode(ctx, newParentDirNode)
              IN  [err |-> "nil", cid |-> a.cid, ctx |-> a.ctx]
    ELSE \* lines 425-508: an intermediate directory
         IF g.err # "nil"
         THEN [err |-> "current directory node not found", cid |-> << >>, ctx |-> ctx]
         ELSE LET currentComponentName == parentPathComponents[1]
                  restOfPathComponents == Tail(parentPathComponents)
                  currentDirNode == g.node
                  k == FirstLink(currentDirNode.Links, currentComponentName)
                  e == AddNode(ctx, EmptyNode)
                  nextDirCID == IF k # 0 THEN currentDirNode.Links[k].Hash ELSE e.cid
                  ctx1 == IF k # 0 THEN ctx ELSE e.ctx
                  rec == updateDirRecursive(ctx1, nextDirCID, restOfPathComponents,
                                            itemName, targetCID, targetSize)
                  n == GetNode(rec.ctx.st, rec.cid)
                  newNextDirSize == CalculateNodeSize(n.node)
                  newCurrentDirNode ==
                      [Data |-> << >>,
                       Links |-> ReplaceOrAppend(currentDirNode.Links, currentComponentName,
                                                 Link(currentComponentName, rec.cid, newNextDirSize))]
                  a == AddNode(rec.ctx, newCurrentDirNode)
              IN  IF rec.err # "nil"
                  THEN [err |-> "recursive update failed", cid |-> << >>, ctx |-> rec.ctx]
                  ELSE IF n.err # "nil"
                       THEN [err |-> "failed to get new next directory node", cid |-> << >>,
                             ctx |-> rec.ctx]
                       ELSE [err |-> "nil", cid |-> a.cid, ctx |-> a.ctx]

\* lines 361-365: r is what updateDirRecursive returned
PutResult(r) ==
    IF r.err # "nil"
    THEN [err |-> "failed to update DAG path", cid |-> << >>, ctx |-> r.ctx]
    ELSE r

\* variant: the item is linked into the root under its name, whatever its parent path
PutAtComponentsIntoRoot(ctx, currentRootCID, pathComponents, targetCID, targetSize) ==
    IF Len(pathComponents) = 0
    THEN [err |-> "invalid path", cid |-> << >>, ctx |-> ctx]
    ELSE PutResult(updateDirRecursive(ctx, currentRootCID, << >>,
                       pathComponents[Len(pathComponents)], targetCID, targetSize))

\* lines 352-360
PutAtComponents(ctx, currentRootCID, pathComponents, targetCID, targetSize) ==
    IF Len(pathComponents) = 0
    THEN [err |-> "invalid path", cid |-> << >>, ctx |-> ctx]
    ELSE PutResult(updateDirRecursive(ctx, currentRootCID,
                       SubSeq(pathComponents, 1, Len(pathComponents) - 1),
                       pathComponents[Len(pathComponents)], targetCID, targetSize))

PutNodeAtPath(ctx, currentRootCID, path, targetCID, targetSize) ==
    IF path = << >> \/ path = <<Slash>>
    THEN [err |-> "cannot put content at the root path", cid |-> << >>, ctx |-> ctx]
    ELSE PutAtComponents(ctx, currentRootCID, splitPath(path), targetCID, targetSize)

-----------------------------------------------------------------------------
(* DAGBuilder.BuildDirectoryDAG.  `items` is the Go map (name -> [cid, size]); *)
(* `order` is the order in which `range items` happens to visit the names.     *)

\* lines 183-189: the directory node is stored; its size is the sum of its links'
StoreDirectory(ctx, dirNode) ==
    [err |-> "nil", cid |-> AddNode(ctx, dirNode).cid,
     size |-> SumSizes(dirNode.Links, 1, Len(dirNode.Links)),
     ctx |-> AddNode(ctx, dirNode).ctx]

BuildDirectoryDAG(ctx, items, order) ==
    StoreDirectory(ctx, [Data |-> << >>,
                         Links |-> Slice([i \in 1..Len(order) |->
                             Link(order[i], items[order[i]].cid, items[order[i]].size)])])

-----------------------------------------------------------------------------
(* In-memory Resolver: pkg/resolver (the variant with UpdateMapping/GetMapping) *)

HexCid(s) == <<"hex", s>>

\* NewResolver: the hard-coded demonstration mapping
NewResolver ==
    ("example.com" :> HexCid("f3a4b5c6")) @@
    ("files.example.com" :> HexCid("a1b2c3d4")) @@
    ("hello.com" :> HexCid("3a64c418"))

GetMapping(m, domain) ==
    IF domain \in DOMAIN m THEN [cid |-> m[domain], found |-> TRUE]
    ELSE [cid |-> << >>, found |-> FALSE]

UpdateMapping(m, domain, cid) == (domain :> cid) @@ m

-----------------------------------------------------------------------------
(* The naming contract and its client: pkg/contract.  The contract itself is   *)
(* deployed on a chain; the model keeps what it stores, name -> owner and CID. *)

ZeroAddress == "0x0"

\* the contract after (name, owner, cid) has been written
SetBinding(reg, name, owner, cid) == (name :> [owner |-> owner, cid |-> cid]) @@ reg

\* Client.GetOwner: the eth_call may fail (fail); the zero address for an unknown name
GetOwner(reg, name, fail) ==
    IF fail THEN [err |-> "rpc error", owner |-> ZeroAddress]
    ELSE [err |-> "nil", owner |-> IF name \in DOMAIN reg THEN reg[name].owner ELSE ZeroAddress]

\* Client.ResolveCID: the empty string for an unknown name
ResolveCID(reg, name, fail) ==
    IF fail THEN [err |-> "rpc error", cid |-> << >>]
    ELSE [err |-> "nil", cid |-> IF name \in DOMAIN reg THEN reg[name].cid ELSE << >>]

\* Client.UpdateCID: the transaction fails to be sent or mined (fail), or the
\* contract reverts it because the sender is not the owner of the name
UpdateCID(reg, sender, name, newCID, fail) ==
    IF fail \/ name \notin DOMAIN reg \/ reg[name].owner # sender
    THEN [err |-> "transaction failed", effects |-> << >>]
    ELSE [err |-> "nil",
          effects |-> <<[kind |-> "chain", by |-> sender, node |-> EmptyNode,
                         domain |-> name, cid |-> newCID]>>]

\* Client.RegisterName: as UpdateCID; the contract reverts when the name is taken
RegisterName(reg, sender, name, cid, fail) ==
    IF fail \/ name \in DOMAIN reg
    THEN [err |-> "transaction failed", effects |-> << >>]
    ELSE [err |-> "nil",
          effects |-> <<[kind |-> "chain", by |-> sender, node |-> EmptyNode,
                         domain |-> name, cid |-> cid]>>]

-----------------------------------------------------------------------------
(* Contract-backed Resolver: pkg/resolver (the variant with GetCache/AddCache) *)

\* Resolver.ResolveDomain
ResolveDomain(reg, domain, fail) ==
    IF ResolveCID(reg, domain, fail).err # "nil"
    THEN [err |-> "failed to resolve CID", cid |-> << >>]
    ELSE IF ResolveCID(reg, domain, fail).cid = << >>
         THEN [err |-> "nil", cid |-> << >>]
         ELSE [err |-> "nil", cid |-> ResolveCID(reg, domain, fail).cid]

\* Resolver.GetCache: the key is domain + "/" + path
GetCache(ch, domain, path) ==
    IF <<domain, path>> \in DOMAIN ch
    THEN [cid |-> ch[<<domain, path>>], ok |-> TRUE]
    ELSE [cid |-> << >>, ok |-> FALSE]

\* Resolver.AddCache (the capacity of 2^16 entries is never reached)
AddCache(ch, domain, path, contentCID) == (<<domain, path>> :> contentCID) @@ ch

\* lines 153-165 of Resolver.UpdateMapping: o is what GetOwner returned
UpdateOwned(reg, auth, domain, cid, o, failUpdate) ==
    IF o.err = "nil" /\ o.owner # ZeroAddress
    THEN IF o.owner # auth
         THEN [err |-> "not authorized to update this name", effects |-> << >>]
         ELSE UpdateCID(reg, auth, domain, cid, failUpdate)
    ELSE [err |-> "domain does not exist", effects |-> << >>]

\* Resolver.UpdateMapping of the contract-backed resolver
PublishMapping(reg, auth, domain, cid, failOwner, failUpdate) ==
    IF domain = "" \/ cid = << >>
    THEN [err |-> "name and CID cannot be empty", effects |-> << >>]
    ELSE UpdateOwned(reg, auth, domain, cid, GetOwner(reg, domain, failOwner), failUpdate)

\* Resolver.RegisterDomain
RegisterDomain(reg, auth, domain, cid, fail) == RegisterName(reg, auth, domain, cid, fail)

-----------------------------------------------------------------------------
(* Requests.  A handler is run against the state in which the request starts  *)
(* and yields the record of the request and the effects (store puts, mapping  *)
(* updates) it performs, in program order; Perform carries them out one by    *)
(* one, so that the states in between are states of the model.                *)

StoreEffects(by, log) ==
    Slice([i \in 1..Len(log) |-> [kind |-> "store", by |-> by, node |-> log[i],
                                  domain |-> "", cid |-> << >>]])

MapEffect(domain, cid) ==
    [kind |-> "map", by |-> "handler", node |-> EmptyNode, domain |-> domain, cid |-> cid]

NoRequest ==
    [op |-> "none", domain |-> "", path |-> << >>, body |-> << >>,
     status |-> 0,
     cid |-> << >>, size |-> 0,          \* result of BuildDAGFromLeaves / BuildDirectoryDAG
     called |-> FALSE,                   \* PutNodeAtPath was called
     root |-> << >>,                     \* its currentRootCID
     stored |-> FALSE,                   \* the DAGs of its root and target were fully stored
     err |-> "nil", newRoot |-> << >>]   \* its results

\* every node reachable from cid is in the store
RECURSIVE DagStored(_, _)
DagStored(st, cid) ==
    /\ cid \in DOMAIN st
    /\ LET n == Unmarshal(st[cid])
       IN  \A i \in 1..Len(n.Links) : DagStored(st, n.Links[i].Hash)

\* lines 58-64 of Handlers.UploadHandler: b is what BuildDAGFromLeaves returned
UploadResponse(body, b) ==
    [cur |-> [NoRequest EXCEPT !.op = "upload", !.body = body, !.status = 200,
                               !.cid = b.cid, !.size = b.size],
     effects |-> StoreEffects("build", b.ctx.log)]

\* Handlers.UploadHandler: POST /upload
UploadHandler(st, k, body) ==
    UploadResponse(body, BuildDAGFromLeaves(Ctx(st), Chunk(ReaderReads(body, k))))

\* lines 82-112 of Handlers.MultipartUploadHandler: the files, one after the other
RECURSIVE BuildFiles(_, _, _, _, _)

\* lines 100-111: b is what BuildDAGFromLeaves returned for files[i]
NextFile(b, k, files, i, itemCIDs) ==
    BuildFiles(b.ctx, k, files, i + 1,
               (files[i].name :> [cid |-> b.cid, size |-> b.size]) @@ itemCIDs)

BuildFiles(ctx, k, files, i, itemCIDs) ==
    IF i > Len(files) THEN [ctx |-> ctx, items |-> itemCIDs]
    ELSE NextFile(BuildDAGFromLeaves(ctx, Chunk(ReaderReads(files[i].body, k))),
                  k, files, i, itemCIDs)

\* lines 114-124: d is what BuildDirectoryDAG returned
MultipartResponse(fileLog, d) ==
    [cur |-> [NoRequest EXCEPT !.op = "multipart", !.status = 200,
                               !.cid = d.cid, !.size = d.size],
     effects |-> StoreEffects("build", fileLog) \o StoreEffects("dir", d.ctx.log)]

\* lines 114-124: f is what the loop over the files left
BuildForm(f, order) ==
    IF Len(order) > 0
    THEN MultipartResponse(f.ctx.log,
                           BuildDirectoryDAG([st |-> f.ctx.st, log |-> << >>], f.items, order))
    ELSE [cur |-> [NoRequest EXCEPT !.op = "multipart", !.status = 200],
          effects |-> StoreEffects("build", f.ctx.log)]

\* Handlers.MultipartUploadHandler: POST /upload/multipart
MultipartUploadHandler(st, k, files, order) ==
    BuildForm(BuildFiles(Ctx(st), k, files, 1, << >>), order)

\* lines 165-178 of Handlers.DAGUploadHandler: ctx is the builder after the loop
DAGUploadResponse(ctx, root, storedNodes) ==
    [cur |-> [NoRequest EXCEPT !.op = "dag",
                  !.status = IF root \in storedNodes THEN 200 ELSE 400,
                  !.cid = root,
                  !.size = IF root \in storedNodes /\ GetNode(ctx.st, root).err = "nil"
                           THEN CalculateNodeSize(GetNode(ctx.st, root).node) ELSE 0],
     effects |-> StoreEffects("dag", ctx.log)]

\* Handlers.DAGUploadHandler: POST /upload/dag
DAGUploadHandler(st, root, nodes) ==
    IF root = << >> \/ Len(nodes) = 0
    THEN [cur |-> [NoRequest EXCEPT !.op = "dag", !.status = 400], effects |-> << >>]
    ELSE DAGUploadResponse(AddNodes(Ctx(st), nodes, 1, Len(nodes)), root,
                           {Cid(nodes[i]) : i \in 1..Len(nodes)})

\* lines 234-251 of Handlers.PutHandler: p is what PutNodeAtPath returned
PutResponse(b, rootEffects, currentRootCID, st1, p, domain, path, body) ==
    [cur |-> [NoRequest EXCEPT !.op = "put", !.domain = domain, !.path = path,
                  !.body = body,
                  !.status = IF p.err = "nil" THEN 200 ELSE 400,
                  !.cid = b.cid, !.size = b.size,
                  !.called = TRUE, !.root = currentRootCID,
                  !.stored = DagStored(st1, currentRootCID) /\ DagStored(st1, b.cid),
                  !.err = p.err, !.newRoot = p.cid],
     effects |-> StoreEffects("build", b.ctx.log)
                 \o rootEffects
                 \o StoreEffects("put", p.ctx.log)
                 \o (IF p.err = "nil" THEN <<MapEffect(domain, p.cid)>> ELSE << >>)]

\* line 234: st1 is the store in which PutNodeAtPath is called
PutContent(b, rootEffects, currentRootCID, st1, domain, path, body) ==
    PutResponse(b, rootEffects, currentRootCID, st1,
                PutNodeAtPath(Ctx(st1), currentRootCID, path, b.cid, b.size),
                domain, path, body)

\* lines 219-230: the domain has no root yet; e is what AddNode(emptyDirNode) returned
InitRoot(b, e, domain, path, body) ==
    PutContent(b, StoreEffects("handler", e.ctx.log) \o <<MapEffect(domain, e.cid)>>,
               e.cid, e.ctx.st, domain, path, body)

\* lines 218-232: b is what BuildDAGFromLeaves returned, gm what GetMapping returned
PutAtRoot(b, gm, domain, path, body) ==
    IF ~gm.found \/ gm.cid = << >>
    THEN InitRoot(b, AddNode([st |-> b.ctx.st, log |-> << >>], EmptyNode), domain, path, body)
    ELSE PutContent(b, << >>, gm.cid, b.ctx.st, domain, path, body)

\* Handlers.PutHandler: PUT /:domain/*path
PutHandler(st, m, k, domain, path, body) ==
    IF path = << >> \/ path = <<Slash>>
    THEN [cur |-> [NoRequest EXCEPT !.op = "put", !.domain = domain, !.path = path,
                                    !.body = body, !.status = 400],
          effects |-> << >>]
    ELSE PutAtRoot(BuildDAGFromLeaves(Ctx(st), Chunk(ReaderReads(body, k))),
                   GetMapping(m, domain), domain, path, body)

\* Resolver.ResolveDomain of the in-memory resolver
ResolveDomainMap(m, domain) ==
    IF domain \in DOMAIN m THEN [err |-> "nil", cid |-> m[domain]]
    ELSE [err |-> "domain not found", cid |-> << >>]

-----------------------------------------------------------------------------
(* Handlers of the contract-backed server: pkg/api/uploadHandler.go,           *)
(* downloadHandler.go and the register handler.  They sign with the key of the *)
(* configuration, so the caller of the contract is always the server.          *)

ServerAddress == "0xserver"

\* lines 89-96 of UploadHandler.UploadHandler: u is what UpdateMapping returned
PublishResponse(b, u, reg, name, body, failOwner) ==
    [cur |-> [op |-> "publish", domain |-> name, body |-> body,
              cid |-> b.cid, size |-> b.size,
              status |-> IF u.err = "nil" THEN 200 ELSE 500,
              err |-> u.err,
              failOwner |-> failOwner,          \* the GetOwner query failed
              sent |-> u.effects # << >>,       \* an update went to the contract
              before |-> reg],                  \* the contract when the request started
     effects |-> StoreEffects("build", b.ctx.log) \o u.effects]

\* lines 89: b is what BuildDAGFromLeaves returned
PublishUpload(b, reg, name, body, failOwner, failUpdate) ==
    PublishResponse(b, PublishMapping(reg, ServerAddress, name, b.cid, failOwner, failUpdate),
                    reg, name, body, failOwner)

\* UploadHandler.UploadHandler: POST /upload?name=...
UploadAndPublish(st, reg, k, name, body, failOwner, failUpdate) ==
    PublishUpload(BuildDAGFromLeaves(Ctx(st), Chunk(ReaderReads(body, k))),
                  reg, name, body, failOwner, failUpdate)

\* domain + path (uploadHandler.go:282): the characters of the path appended
RECURSIVE JoinName(_, _)
JoinName(domain, path) ==
    IF path = << >> THEN domain ELSE JoinName(domain \o Head(path), Tail(path))

\* UploadHandler.PutHandler: PUT /:domain/*path of the contract-backed server
PutAndPublish(st, reg, k, domain, path, body, failOwner, failUpdate) ==
    IF path = << >> \/ path = <<Slash>>
    THEN [cur |-> [op |-> "putname", site |-> domain, path |-> path, body |-> body,
                   status |-> 400],
          effects |-> << >>]
    ELSE [cur |-> [op |-> "putname", site |-> domain, path |-> path]
                  @@ UploadAndPublish(st, reg, k, JoinName(domain, path), body,
                                      failOwner, failUpdate).cur,
          effects |-> UploadAndPublish(st, reg, k, JoinName(domain, path), body,
                                       failOwner, failUpdate).effects]

\* lines 58-67 of RegisterHandler.RegisterDomain: r is what Resolver.RegisterDomain returned
RegisterResponse(r, domain) ==
    [cur |-> [op |-> "register", domain |-> domain,
              status |-> IF r.err = "nil" THEN 200 ELSE 500, err |-> r.err],
     effects |-> r.effects]

\* RegisterHandler.RegisterDomain: POST /register?domain=..., with the placeholder CID ""
RegisterHandler(reg, domain, fail) ==
    IF domain = ""
    THEN [cur |-> [op |-> "register", domain |-> domain, status |-> 400, err |-> "nil"],
          effects |-> << >>]
    ELSE RegisterResponse(RegisterDomain(reg, ServerAddress, domain, << >>, fail), domain)

\* DAGBuilder.ListDirectory
ListDirectory(st, dirNodeCID) ==
    LET g == GetNode(st, dirNodeCID)
    IN  IF g.err # "nil" THEN [err |-> "failed to get directory node", links |-> << >>]
        ELSE IF Len(g.node.Links) > 0 /\ g.node.Links[1].Name # << >>
             THEN [err |-> "nil", links |-> g.node.Links]
             ELSE IF Len(g.node.Links) = 0 /\ Len(g.node.Data) = 0
                  THEN [err |-> "nil", links |-> << >>]
                  ELSE [err |-> "node is not a directory node", links |-> << >>]

\* a GET request before anything has been looked up
GetRequest(hex, domain, path) ==
    [op |-> "get", hex |-> hex, domain |-> domain, path |-> path, status |-> 0,
     resolved |-> [err |-> "none", cid |-> << >>],   \* what ResolveDomain returned
     walked |-> FALSE, root |-> << >>,               \* ResolvePath was called, from this root
     fetched |-> FALSE, target |-> << >>,            \* GetNode was called, on this CID
     body |-> << >>, listing |-> << >>]

\* lines 86-139 of DownloadHandler.DownloadHandler: n is what GetNode(target) returned
ServeNode(st, req, target, n) ==
    IF n.err # "nil" THEN [req EXCEPT !.status = 500]
    ELSE IF Len(n.node.Data) = 0 /\ Len(n.node.Links) > 0 /\ n.node.Links[1].Name # << >>
         THEN IF ListDirectory(st, target).err # "nil" THEN [req EXCEPT !.status = 500]
              ELSE [req EXCEPT !.status = 200, !.listing = ListDirectory(st, target).links]
         ELSE IF GetFileData(st, target).err # "nil" THEN [req EXCEPT !.status = 500]
              ELSE [req EXCEPT !.status = 200, !.body = GetFileData(st, target).data]

\* line 80: the target node is fetched
ServeTarget(st, req, target) ==
    ServeNode(st, [req EXCEPT !.fetched = TRUE, !.target = target], target, GetNode(st, target))

\* lines 47-52 and 66-71: p is what ResolvePath(rootCID, path) returned
ServeResolved(st, req, p) ==
    IF p.err # "nil" THEN [req EXCEPT !.status = 404] ELSE ServeTarget(st, req, p.cid)

WalkAndServe(st, req, rootCID, path) ==
    ServeResolved(st, [req EXCEPT !.walked = TRUE, !.root = rootCID],
                  ResolvePath(st, rootCID, path))

\* lines 60-71: rd is what ResolveDomain returned
ResolveAndServe(st, req, rd, path) ==
    IF rd.err # "nil" THEN [req EXCEPT !.status = 404, !.resolved = rd]
    ELSE WalkAndServe(st, [req EXCEPT !.resolved = rd], rd.cid, path)

\* variant: the cache is asked first, whatever the domain looks like
DownloadResponseCacheFirst(st, reg, ch, hex, domain, path, fail) ==
    IF GetCache(ch, domain, path).ok
    THEN ServeTarget(st, GetRequest(hex, domain, path), GetCache(ch, domain, path).cid)
    ELSE IF hex THEN WalkAndServe(st, GetRequest(hex, domain, path), domain, path)
         ELSE ResolveAndServe(st, GetRequest(hex, domain, path),
                              ResolveDomain(reg, domain, fail), path)

\* DownloadHandler.DownloadHandler: GET /:domain/*path; hex tells whether the
\* domain matches customCIDRegex, fail whether the ResolveCID query fails
DownloadResponse(st, reg, ch, hex, domain, path, fail) ==
    IF hex THEN WalkAndServe(st, GetRequest(hex, domain, path), domain, path)
    ELSE IF GetCache(ch, domain, path).ok
         THEN ServeTarget(st, GetRequest(hex, domain, path), GetCache(ch, domain, path).cid)
         ELSE ResolveAndServe(st, GetRequest(hex, domain, path),
                              ResolveDomain(reg, domain, fail), path)

\* Handlers.DownloadHandler of the in-memory server: GET /:domain/*path
HandlersDownloadResponse(st, m, domain, path) ==
    ResolveAndServe(st, GetRequest(FALSE, domain, path), ResolveDomainMap(m, domain), path)

DownloadHandler(st, reg, ch, hex, domain, path, fail) ==
    [cur |-> DownloadResponse(st, reg, ch, hex, domain, path, fail), effects |-> << >>]

-----------------------------------------------------------------------------
(* Inputs *)

ChunkSizes == 1..MaxChunkSize

\* request bodies of Spec
Bodies == {<< >>, <<1>>, <<1, 2>>}

\* bodies of SpecFile: every byte string over {1, 2} of at most MaxSmallLen bytes,
\* and two long ones that chunk into Fanout and Fanout + 1 leaves at chunk size 1
SmallBodies == UNION {[1..n -> {1, 2}] : n \in 0..MaxSmallLen}
LongBody(n) == [i \in 1..n |-> 1 + (i % 2)]
FileBodies == SmallBodies \cup {LongBody(Fanout), LongBody(Fanout + 1)}

\* the *path parameter of the router always starts with a slash
Paths ==
    { <<"/">>, <<"/", "/">>,
      <<"/", "a">>, <<"/", "b">>, <<"/", "a", "/">>,
      <<"/", "a", "/", "a">>, <<"/", "a", "/", "b">>, <<"/", "a", "/", "b", "/", "a">>,
      <<"/", "/", "a">>, <<"/", "a", "/", "/">>, <<"/", "a", "/", "/", "b">> }

PutDomains == {"new.com"}

\* multipart forms: the files of the form, in the order in which they are read
Forms ==
    { << >>,
      <<[name |-> <<"a">>, body |-> <<1>>], [name |-> <<"b">>, body |-> <<1, 2>>]>> }

\* the orders in which a Go map with the given keys can be ranged over
Orders(keys) ==
    {o \in [1..Cardinality(keys) -> keys] : \A i, j \in DOMAIN o : i # j => o[i] # o[j]}

\* bodies of POST /upload/dag: a directory listed before the leaf it links to
DagLeaf == [Data |-> <<2>>, Links |-> << >>]
DagDir == [Data |-> << >>, Links |-> <<Link(<<"b">>, Cid(DagLeaf), 1)>>]
DagUploads ==
    { [root |-> Cid(DagDir), nodes |-> <<DagDir, DagLeaf>>],
      [root |-> Cid(DagLeaf), nodes |-> <<DagDir>>] }

-----------------------------------------------------------------------------
(* State machine *)

Idle == pending = << >>

Start(h) ==
    /\ Idle
    /\ nops < MaxOps
    /\ nops' = nops + 1
    /\ cur' = h.cur
    /\ pending' = h.effects
    /\ written' = << >>
    /\ prevStore' = store
    /\ prevMap' = domainMap
    /\ UNCHANGED <<chunkSize, store, domainMap, registry, cache>>

Upload ==
    \E body \in Bodies : Start(UploadHandler(store, chunkSize, body))

UploadFile ==
    \E body \in FileBodies : Start(UploadHandler(store, chunkSize, body))

Multipart ==
    \E files \in Forms :
        \E order \in Orders({files[i].name : i \in 1..Len(files)}) :
            Start(MultipartUploadHandler(store, chunkSize, files, order))

DAGUpload ==
    \E u \in DagUploads : Start(DAGUploadHandler(store, u.root, u.nodes))

Put ==
    \E domain \in PutDomains, path \in Paths, body \in Bodies :
        Start(PutHandler(store, domainMap, chunkSize, domain, path, body))

\* the request performs its next effect
Perform ==
    /\ pending # << >>
    /\ LET e == Head(pending)
       IN  IF e.kind = "store"
           THEN /\ store' = AddNode(Ctx(store), e.node).ctx.st
                /\ written' = Append(written, [by |-> e.by, node |-> e.node])
                /\ UNCHANGED <<domainMap, registry>>
           ELSE IF e.kind = "map"
           THEN /\ domainMap' = UpdateMapping(domainMap, e.domain, e.cid)
                /\ UNCHANGED <<store, written, registry>>
           ELSE /\ registry' = SetBinding(registry, e.domain, e.by, e.cid)
                /\ UNCHANGED <<store, written, domainMap>>
    /\ pending' = Tail(pending)
    /\ UNCHANGED <<chunkSize, cur, prevStore, prevMap, nops, cache>>

Init ==
    /\ chunkSize \in ChunkSizes
    /\ store = << >>
    /\ domainMap = NewResolver
    /\ cur = NoRequest
    /\ pending = << >>
    /\ written = << >>
    /\ prevStore = << >>
    /\ prevMap = NewResolver
    /\ nops = 0
    /\ registry = << >>
    /\ cache = << >>

Next == Upload \/ Multipart \/ DAGUpload \/ Put \/ Perform

Spec == Init /\ [][Next]_vars

\* uploads of single files only, with bodies long enough to need more than Fanout leaves
NextUpload == UploadFile \/ Perform

SpecFile == Init /\ [][NextUpload]_vars

Done == Idle /\ cur.op # "none"

\* a request starts while fewer than max have been made
StartBounded(h, max) ==
    /\ Idle
    /\ nops < max
    /\ nops' = nops + 1
    /\ cur' = h.cur
    /\ pending' = h.effects
    /\ written' = << >>
    /\ prevStore' = store
    /\ prevMap' = domainMap
    /\ UNCHANGED <<chunkSize, store, domainMap, registry, cache>>

\* an io.Reader over b read with a buffer of k bytes: every Read may return fewer
\* bytes than the buffer holds (at least one while bytes remain); the last bytes
\* come with io.EOF or are followed by a Read that returns 0, io.EOF
RECURSIVE ReadSplits(_, _)
ReadSplits(b, k) ==
    IF b = << >> THEN { << << >> >> }
    ELSE UNION { { <<SubSeq(b, 1, n)>> \o rest : rest \in ReadSplits(SubSeq(b, n + 1, Len(b)), k) }
                 \cup (IF n = Len(b) THEN { <<b>> } ELSE {})
                 : n \in 1..Min(k, Len(b)) }

\* Chunker.Chunk is called on a reader
ChunkReader ==
    \E body \in SmallBodies :
        \E reads \in ReadSplits(body, chunkSize) :
            /\ Idle
            /\ nops < MaxOps
            /\ nops' = nops + 1
            /\ cur' = [op |-> "chunk", body |-> body, reads |-> reads, leaves |-> Chunk(reads)]
            /\ UNCHANGED <<chunkSize, store, domainMap, pending, written, prevStore, prevMap,
                           registry, cache>>

\* calls of Chunker.Chunk only
SpecChunk == Init /\ [][ChunkReader]_vars

\* bodies of no, one, two and three bytes, and the two that chunk into Fanout and
\* Fanout + 1 leaves at chunk size 1
BuildBodies == Bodies \cup {<<1, 2, 1>>, LongBody(Fanout), LongBody(Fanout + 1)}

UploadBuild ==
    \E body \in BuildBodies : StartBounded(UploadHandler(store, chunkSize, body), MaxBuilds)

NextBuild == UploadBuild \/ Perform

\* uploads of single files, one after the other
SpecBuild == Init /\ [][NextBuild]_vars

\* the contract-backed server: a name, registered by the server or by another
\* account of the chain, published to and read
Names == {"site.eth"}
OtherAddress == "0xother"
NameBodies == {<<1, 2>>}
GetPaths == { <<"/">>, <<"/", "a">> }

\* POST /register
Register ==
    \E name \in Names, fail \in BOOLEAN :
        StartBounded(RegisterHandler(registry, name, fail), MaxNameOps)

\* another account registers the name at the contract, with a CID or without one
OtherRegisters ==
    \E name \in Names, cid \in {<< >>, Cid(DagDir)} :
        /\ name \notin DOMAIN registry
        /\ StartBounded([cur |-> [op |-> "other", domain |-> name],
                         effects |-> RegisterName(registry, OtherAddress, name, cid, FALSE).effects],
                        MaxNameOps)

\* POST /upload?name=
Publish ==
    \E name \in Names, body \in NameBodies, failOwner \in BOOLEAN, failUpdate \in BOOLEAN :
        StartBounded(UploadAndPublish(store, registry, chunkSize, name, body,
                                      failOwner, failUpdate), MaxNameOps)

\* GET /:domain/*path with a name
Get ==
    \E name \in Names, path \in GetPaths, fail \in BOOLEAN :
        StartBounded(DownloadHandler(store, registry, cache, FALSE, name, path, fail),
                     MaxNameOps)

\* GET /:domain/*path with a CID of 64 hex digits, stored or not
GetByCid ==
    \E cid \in DOMAIN store \cup {Cid(DagDir)}, path \in GetPaths :
        StartBounded(DownloadHandler(store, registry, cache, TRUE, cid, path, FALSE),
                     MaxNameOps)

NextNames == Register \/ OtherRegisters \/ Publish \/ Get \/ GetByCid \/ Perform

\* the contract-backed server
SpecNames == Init /\ [][NextNames]_vars

\* the contract-backed server whose resolver's cache is filled: the name is
\* registered, published to with two bodies, cached and read
CacheBodies == {<<1>>, <<1, 2>>}

RegisterCached ==
    \E name \in Names : StartBounded(RegisterHandler(registry, name, FALSE), MaxCacheOps)

PublishCached ==
    \E name \in Names, body \in CacheBodies :
        StartBounded(UploadAndPublish(store, registry, chunkSize, name, body, FALSE, FALSE),
                     MaxCacheOps)

GetCached ==
    \E name \in Names, path \in GetPaths :
        StartBounded(DownloadHandler(store, registry, cache, FALSE, name, path, FALSE),
                     MaxCacheOps)

\* Resolver.AddCache is called with the CID that the path resolves to under the
\* root the contract binds to the name at that moment
CacheAdd ==
    \E name \in Names, path \in GetPaths :
        /\ Idle
        /\ ResolveDomain(registry, name, FALSE).cid # << >>
        /\ ResolvePath(store, ResolveDomain(registry, name, FALSE).cid, path).err = "nil"
        /\ cache' = AddCache(cache, name, path,
                             ResolvePath(store, ResolveDomain(registry, name, FALSE).cid, path).cid)
        /\ cache' # cache
        /\ UNCHANGED <<chunkSize, store, domainMap, cur, pending, written, prevStore, prevMap,
                       nops, registry>>

NextCache == RegisterCached \/ PublishCached \/ GetCached \/ CacheAdd \/ Perform

SpecCache == Init /\ [][NextCache]_vars

\* Concurrent publishes through the resolver whose UpdateMapping registers an
\* unknown name and writes the cache after the contract (pkg/resolver, the
\* variant with GetMapping).  Each call is a goroutine of the server; cur.procs
\* holds, for each, where it stands and what GetOwner returned to it.
Publishers == 1..MaxPublishers
RaceName == "site.eth"
RaceCid(p) == Cid([Data |-> <<p>>, Links |-> << >>])

\* the calls UpdateMapping(auth, name, cid) begin, each with a CID of its own
StartPublishes ==
    /\ cur.op = "none"
    /\ cur' = [op |-> "race",
               procs |-> [p \in Publishers |->
                            [pc |-> "owner", cid |-> RaceCid(p),
                             owner |-> ZeroAddress, err |-> "nil"]]]
    /\ UNCHANGED <<chunkSize, store, domainMap, pending, written, prevStore, prevMap, nops,
                   registry, cache>>

\* line 247: owner, err := r.contractClient.GetOwner(name)
QueryOwner(p) ==
    /\ cur.op = "race" /\ cur.procs[p].pc = "owner"
    /\ \E fail \in BOOLEAN :
          LET o == GetOwner(registry, RaceName, fail)
          IN  cur' = [cur EXCEPT !.procs[p] =
                        IF o.err = "nil" /\ o.owner # ZeroAddress /\ o.owner # ServerAddress
                        THEN [@ EXCEPT !.pc = "done", !.owner = o.owner,
                                       !.err = "not authorized to update this name"]
                        ELSE [@ EXCEPT !.pc = "write", !.owner = o.owner]]
    /\ UNCHANGED <<chunkSize, store, domainMap, pending, written, prevStore, prevMap, nops,
                   registry, cache>>

\* lines 248-265: UpdateCID for a name with an owner, RegisterName otherwise;
\* the call returns when the transaction is mined
WriteAuthority(p) ==
    /\ cur.op = "race" /\ cur.procs[p].pc = "write"
    /\ \E fail \in BOOLEAN :
          LET w == IF cur.procs[p].owner # ZeroAddress
                   THEN UpdateCID(registry, ServerAddress, RaceName, cur.procs[p].cid, fail)
                   ELSE RegisterName(registry, ServerAddress, RaceName, cur.procs[p].cid, fail)
          IN  IF w.err # "nil"
              THEN /\ cur' = [cur EXCEPT !.procs[p].pc = "done", !.procs[p].err = w.err]
                   /\ UNCHANGED registry
              ELSE /\ cur' = [cur EXCEPT !.procs[p].pc = "cache"]
                   /\ registry' = SetBinding(registry, RaceName, ServerAddress, cur.procs[p].cid)
    /\ UNCHANGED <<chunkSize, store, domainMap, pending, written, prevStore, prevMap, nops, cache>>

\* line 268: r.cache.Add(name, cid)
WriteCache(p) ==
    /\ cur.op = "race" /\ cur.procs[p].pc = "cache"
    /\ cache' = (RaceName :> cur.procs[p].cid) @@ cache
    /\ cur' = [cur EXCEPT !.procs[p].pc = "done"]
    /\ UNCHANGED <<chunkSize, store, domainMap, pending, written, prevStore, prevMap, nops,
                   registry>>

NextRace ==
    \/ StartPublishes
    \/ \E p \in Publishers : QueryOwner(p) \/ WriteAuthority(p) \/ WriteCache(p)

SpecRace == Init /\ [][NextRace]_vars

\* a site kept under one name of the contract-backed server: registrations of
\* names, PUT and GET requests
PutNames == {"site.eth", "site.eth/a"}
PutNamePaths == {<<Slash>>, <<"/", "a">>}

RegisterPutName ==
    \E name \in PutNames :
        StartBounded(RegisterHandler(registry, name, FALSE), MaxPutNameOps)

PutName ==
    \E path \in PutNamePaths, body \in NameBodies, failOwner \in BOOLEAN, failUpdate \in BOOLEAN :
        StartBounded(PutAndPublish(store, registry, chunkSize, "site.eth", path, body,
                                   failOwner, failUpdate), MaxPutNameOps)

GetName ==
    \E path \in PutNamePaths :
        StartBounded(DownloadHandler(store, registry, cache, FALSE, "site.eth", path, FALSE),
                     MaxPutNameOps)

NextPutName == RegisterPutName \/ PutName \/ GetName \/ Perform

SpecPutName == Init /\ [][NextPutName]_vars

\* a site kept under one name of the in-memory server: PUT and GET requests
SiteName == "new.com"
SitePaths ==
    { <<"/", "a">>, <<"/", "b">>, <<"/", "a", "/", "b">>, <<"/", "a", "/", "/", "b">>,
      <<"/", "a", "/", "b", "/", "a">> }
SiteBodies == {<<1>>, <<1, 2>>}

PutSite ==
    \E path \in SitePaths, body \in SiteBodies :
        StartBounded(PutHandler(store, domainMap, chunkSize, SiteName, path, body), MaxSiteOps)

GetSite ==
    \E path \in SitePaths \cup {<<Slash>>} :
        StartBounded([cur |-> HandlersDownloadResponse(store, domainMap, SiteName, path),
                      effects |-> << >>], MaxSiteOps)

NextSite == PutSite \/ GetSite \/ Perform

SpecSite == Init /\ [][NextSite]_vars

\* PUT requests to a domain without a root and to one whose demonstration root
\* was never stored, along paths with up to three slashes in a row
TreeDomains == {"new.com", "hello.com"}
TreePaths ==
    { <<"/">>, <<"/", "/">>, <<"/", "/", "/">>,
      <<"/", "a">>, <<"/", "b">>, <<"/", "a", "/">>, <<"/", "/", "a">>,
      <<"/", "a", "/", "b">>, <<"/", "a", "/", "/", "b">> }
TreeBodies == {<<1, 2>>}

\* bodies of POST /upload/dag: also a directory with two links of the same name,
\* the first of them to a node that is not uploaded with it
TwinDir ==
    [Data |-> << >>,
     Links |-> <<Link(<<"a">>, Cid(DagLeaf), 1), Link(<<"a">>, Cid(DagDir), 1),
                 Link(<<"b">>, Cid(DagDir), 1)>>]
TreeUploads ==
    DagUploads \cup { [root |-> Cid(TwinDir), nodes |-> <<TwinDir, DagDir>>] }

PutTree ==
    \E domain \in TreeDomains, path \in TreePaths, body \in TreeBodies :
        StartBounded(PutHandler(store, domainMap, chunkSize, domain, path, body), MaxTreeOps)

UploadTree ==
    \E u \in TreeUploads : StartBounded(DAGUploadHandler(store, u.root, u.nodes), MaxTreeOps)

NextTree == PutTree \/ UploadTree \/ Perform

\* directory trees: puts and DAG uploads only
SpecTree == Init /\ [][NextTree]_vars

\* concurrent PUT requests to one name of the in-memory server: each request is
\* a goroutine, and another one can run between its calls of the resolver and of
\* the DAG builder
Putters == 1..MaxPutters

\* the requests arrive: PUT /new.com{path} with a body; lines 190-193 answer 400
\* to the path "/"
StartPuts ==
    /\ cur.op = "none"
    /\ \E paths \in [Putters -> TreePaths], bodies \in [Putters -> SiteBodies] :
          cur' = [op |-> "puts",
                  procs |-> [p \in Putters |->
                               [pc |-> IF paths[p] = <<Slash>> THEN "done" ELSE "build",
                                path |-> paths[p], body |-> bodies[p],
                                cid |-> << >>, size |-> 0, root |-> << >>,
                                newRoot |-> << >>, err |-> "nil",
                                status |-> IF paths[p] = <<Slash>> THEN 400 ELSE 0]]]
    /\ UNCHANGED <<chunkSize, store, domainMap, pending, written, prevStore, prevMap, nops,
                   registry, cache>>

\* lines 203-218: the content DAG is built, then GetMapping reads the binding
ReadBinding(p) ==
    /\ cur.op = "puts" /\ cur.procs[p].pc = "build"
    /\ LET b == BuildDAGFromLeaves(Ctx(store), Chunk(ReaderReads(cur.procs[p].body, chunkSize)))
           gm == GetMapping(domainMap, SiteName)
       IN  /\ store' = b.ctx.st
           /\ cur' = [cur EXCEPT !.procs[p] =
                        [@ EXCEPT !.cid = b.cid, !.size = b.size, !.root = gm.cid,
                                  !.pc = IF ~gm.found \/ gm.cid = << >> THEN "init" ELSE "put"]]
    /\ UNCHANGED <<chunkSize, domainMap, pending, written, prevStore, prevMap, nops,
                   registry, cache>>

\* lines 219-230: the name had no root; the empty directory is stored and bound
InitBinding(p) ==
    /\ cur.op = "puts" /\ cur.procs[p].pc = "init"
    /\ store' = AddNode(Ctx(store), EmptyNode).ctx.st
    /\ domainMap' = UpdateMapping(domainMap, SiteName, Cid(EmptyNode))
    /\ cur' = [cur EXCEPT !.procs[p].root = Cid(EmptyNode), !.procs[p].pc = "put"]
    /\ UNCHANGED <<chunkSize, pending, written, prevStore, prevMap, nops, registry, cache>>

\* lines 234-239: PutNodeAtPath from the root the request holds
PutAt(p) ==
    /\ cur.op = "puts" /\ cur.procs[p].pc = "put"
    /\ LET r == PutNodeAtPath(Ctx(store), cur.procs[p].root, cur.procs[p].path,
                              cur.procs[p].cid, cur.procs[p].size)
       IN  /\ store' = r.ctx.st
           /\ cur' = [cur EXCEPT !.procs[p] =
                        IF r.err # "nil"
                        THEN [@ EXCEPT !.err = r.err, !.status = 400, !.pc = "done"]
                        ELSE [@ EXCEPT !.newRoot = r.cid, !.pc = "update"]]
    /\ UNCHANGED <<chunkSize, domainMap, pending, written, prevStore, prevMap, nops,
                   registry, cache>>

\* lines 242-251: the new root is bound and the request answered
UpdateBinding(p) ==
    /\ cur.op = "puts" /\ cur.procs[p].pc = "update"
    /\ domainMap' = UpdateMapping(domainMap, SiteName, cur.procs[p].newRoot)
    /\ cur' = [cur EXCEPT !.procs[p].status = 200, !.procs[p].pc = "done"]
    /\ UNCHANGED <<chunkSize, store, pending, written, prevStore, prevMap, nops,
                   registry, cache>>

NextPuts ==
    \/ StartPuts
    \/ \E p \in Putters : ReadBinding(p) \/ InitBinding(p) \/ PutAt(p) \/ UpdateBinding(p)

SpecPuts == Init /\ [][NextPuts]_vars

-----------------------------------------------------------------------------
(* Properties *)

\* the request is PutHandler's, and its call of PutNodeAtPath returned no error
PutOk == Done /\ cur.op = "put" /\ cur.called /\ cur.err = "nil"

\* the nodes the running request has written so far through the given caller
WrittenBy(by) == {written[i].node : i \in {j \in 1..Len(written) : written[j].by = by}}

\* C1 (file round trip): once an upload has finished, GetFileData on the root
\* CID that BuildDAGFromLeaves returned yields exactly the uploaded bytes, however
\* many leaves the body was chunked into.
C1_FileRoundTrip ==
    (Done /\ cur.op = "upload")
        => GetFileData(store, cur.cid) = [err |-> "nil", data |-> cur.body]

\* the same, for bodies of at most Fanout leaves (the two-level DAGs)
C1_RoundTripUpToFanout ==
    (Done /\ cur.op = "upload" /\ Len(Chunk(ReaderReads(cur.body, chunkSize))) <= Fanout)
        => GetFileData(store, cur.cid) = [err |-> "nil", data |-> cur.body]

\* the number of bytes of file content below a stored node
RECURSIVE SubtreeSize(_, _)
SubtreeSize(st, cid) ==
    LET n == GetNode(st, cid).node
    IN  IF Len(n.Data) > 0 THEN Len(n.Data)
        ELSE IF Len(n.Links) = 0 THEN 0
        ELSE LET sizes == Slice([i \in 1..Len(n.Links) |->
                                    Link(<< >>, << >>, SubtreeSize(st, n.Links[i].Hash))])
             IN  SumSizes(sizes, 1, Len(sizes))

\* C5 (canonical link sizes): every link of every node that BuildDAGFromLeaves
\* has written carries the recomputed size of the subtree below the link's hash;
\* no node is stored whose link sizes differ from that.
C5_CanonicalLinkSizes ==
    \A n \in WrittenBy("build") :
        \A i \in 1..Len(n.Links) :
            n.Links[i].Size = SubtreeSize(store, n.Links[i].Hash)

\* the components of a path as the path syntax defines them: empty ones ignored
NonEmptyComponent(c) == Len(c) > 0
Components(path) == SelectSeq(splitPath(path), NonEmptyComponent)

IsPrefix(s, t) == Len(s) <= Len(t) /\ SubSeq(t, 1, Len(s)) = s

\* the store in which the request called PutNodeAtPath: the store of the start
\* of the request and what BuildDAGFromLeaves and the handler added to it
CallStore ==
    LET before == SelectSeq(written, LAMBDA w : w.by # "put")
    IN  AddNodes(Ctx(prevStore), Slice([i \in 1..Len(before) |-> before[i].node]),
                 1, Len(before)).st

\* C2 (put then resolve): when PutNodeAtPath returned a new root for a path with
\* at least one non-empty component, whatever its leading, trailing or repeated
\* slashes, ResolvePath from the new root along the same path returns the target.
C2_PutThenResolve ==
    (PutOk /\ Len(Components(cur.path)) > 0)
        => ResolvePath(store, cur.newRoot, cur.path) = [err |-> "nil", cid |-> cur.cid]

\* the same, for paths none of whose components is empty
C2_PutThenResolveNoEmptyComponent ==
    (PutOk /\ Len(splitPath(cur.path)) > 0 /\ Components(cur.path) = splitPath(cur.path))
        => ResolvePath(store, cur.newRoot, cur.path) = [err |-> "nil", cid |-> cur.cid]

\* what a caller of ResolvePath can tell apart: the CID, or that it failed
Outcome(r) == IF r.err = "nil" THEN [ok |-> TRUE, cid |-> r.cid] ELSE [ok |-> FALSE, cid |-> << >>]

\* paths resolved before and after a put
ProbePaths == Paths \cup { <<"/", "b", "/", "a">>, <<"/", "b", "/", "b">>, <<"a", "/", "b", "/">> }

\* C3 (unrelated subtree preservation): when PutNodeAtPath(r, p2, t, s) returned
\* r', every path p1 whose component sequence is neither a prefix of p2's nor
\* has p2's as a prefix resolves from r' to the same outcome as from r: the same
\* CID, or a failure in both cases.
C3_UnrelatedSubtreePreserved ==
    PutOk =>
        \A p1 \in ProbePaths :
            (/\ ~IsPrefix(Components(p1), Components(cur.path))
             /\ ~IsPrefix(Components(cur.path), Components(p1)))
                => Outcome(ResolvePath(store, cur.newRoot, p1))
                       = Outcome(ResolvePath(CallStore, cur.root, p1))

\* an earlier put's path still resolves after a put at an unrelated path
C3_Witness ==
    /\ PutOk
    /\ \E p1 \in ProbePaths :
          /\ ~IsPrefix(Components(p1), Components(cur.path))
          /\ ~IsPrefix(Components(cur.path), Components(p1))
          /\ Len(Components(p1)) = 2
          /\ cur.root # Cid(EmptyNode)
          /\ ResolvePath(CallStore, cur.root, p1).err = "nil"
          /\ ResolvePath(store, cur.newRoot, p1) = ResolvePath(CallStore, cur.root, p1)

\* C4 (idempotence): when PutNodeAtPath(r, p, t, s) succeeded with root r1,
\* PutNodeAtPath(r1, p, t, s) succeeds and returns the same CID r1.
C4_PutIdempotent ==
    PutOk =>
        LET again == PutNodeAtPath(Ctx(store), cur.newRoot, cur.path, cur.cid, cur.size)
        IN  again.err = "nil" /\ again.cid = cur.newRoot

\* a put that left the root with two entries or more, repeated
C4_Witness ==
    /\ PutOk
    /\ Len(GetNode(store, cur.newRoot).node.Links) >= 2
    /\ PutNodeAtPath(Ctx(store), cur.newRoot, cur.path, cur.cid, cur.size)
           = [err |-> "nil", cid |-> cur.newRoot,
              ctx |-> PutNodeAtPath(Ctx(store), cur.newRoot, cur.path, cur.cid, cur.size).ctx]

\* the CIDs reachable from a CID through the links of the stored nodes
RECURSIVE Reachable(_, _)
Reachable(st, cid) ==
    IF cid \notin DOMAIN st THEN {cid}
    ELSE LET n == Unmarshal(st[cid])
         IN  {cid} \cup UNION {Reachable(st, n.Links[i].Hash) : i \in 1..Len(n.Links)}

\* the size a link to the node must carry: the sum of the node's link sizes, or
\* the length of its data when it is a leaf
LinkSizeOf(n) ==
    IF Len(n.Links) > 0 THEN SumSizes(n.Links, 1, Len(n.Links)) ELSE Len(n.Data)

\* C6 (size propagation): after any sequence of puts that started from the empty
\* directory, every named link of every node reachable from the resulting root
\* carries the sum of the link sizes of the directory it points to, or the size
\* of the target when it points to a leaf.
C6_SizePropagation ==
    PutOk =>
        \A c \in Reachable(store, cur.newRoot) :
            LET n == GetNode(store, c).node
            IN  \A i \in 1..Len(n.Links) :
                    Len(n.Links[i].Name) > 0
                        => n.Links[i].Size = LinkSizeOf(GetNode(store, n.Links[i].Hash).node)

\* the root's entry of a directory that holds two files carries the sum of their sizes
C6_Witness ==
    /\ PutOk
    /\ LET root == GetNode(store, cur.newRoot).node
       IN  \E i \in 1..Len(root.Links) :
              LET d == GetNode(store, root.Links[i].Hash).node
              IN  /\ Len(root.Links[i].Name) > 0
                  /\ Len(d.Links) = 2
                  /\ \A j \in 1..2 : Len(d.Links[j].Name) > 0 /\ d.Links[j].Size > 0
                  /\ root.Links[i].Size = d.Links[1].Size + d.Links[2].Size

\* C7 (name uniqueness): every node that PutNodeAtPath has written has pairwise
\* distinct link names, also when the path passes through a target put earlier.
C7_LinkNamesPairwiseDistinct ==
    \A n \in WrittenBy("put") :
        \A i, j \in 1..Len(n.Links) : i # j => n.Links[i].Name # n.Links[j].Name

\* the same, for the links that have a name
C7_NonEmptyNamesDistinct ==
    \A n \in WrittenBy("put") :
        \A i, j \in 1..Len(n.Links) :
            (i # j /\ Len(n.Links[i].Name) > 0) => n.Links[i].Name # n.Links[j].Name

\* C8 (no mixing): every node that PutNodeAtPath has written has only links with
\* non-empty names, or no links at all.
C8_OnlyNamedLinks ==
    \A n \in WrittenBy("put") :
        \A i \in 1..Len(n.Links) : Len(n.Links[i].Name) > 0

\* C9 (children before parents): in every state of a BuildDAGFromLeaves call, and
\* of a PutNodeAtPath call whose root DAG and target were fully stored, every
\* node the call has written so far has all its link hashes in the store.
C9_ChildrenBeforeParents ==
    \A i \in 1..Len(written) :
        (\/ written[i].by = "build"
         \/ written[i].by = "put" /\ cur.stored)
            => \A j \in 1..Len(written[i].node.Links) :
                   written[i].node.Links[j].Hash \in DOMAIN store

\* a request under way that has written parents through both calls
C9_Witness ==
    /\ ~Idle
    /\ cur.stored
    /\ \E n \in WrittenBy("build") : Len(n.Links) > 0
    /\ \E n \in WrittenBy("put") : Len(n.Links) > 0

\* every stored key is the CID of the node stored under it
KeyIsCid == \A key \in DOMAIN store : key = Cid(Unmarshal(store[key]))

\* the roots that requests have handed out or bound: the results of the running
\* request, the root it started from, and the roots the domains are bound to
OldRoots ==
    ({cur.cid, cur.root, cur.newRoot} \cup {domainMap[d] : d \in DOMAIN domainMap})
        \cap DOMAIN store

\* a step deletes no key and changes no value, and leaves what the reader and the
\* walker return from an old root whose DAG is stored as it was
AppendOnlyStep ==
    /\ \A key \in DOMAIN store : key \in DOMAIN store' /\ store'[key] = store[key]
    /\ store' # store
           => \A r \in OldRoots :
                  DagStored(store, r)
                      => /\ GetFileData(store', r) = GetFileData(store, r)
                         /\ \A q \in Paths :
                                ResolvePath(store', r, q) = ResolvePath(store, r, q)

-----------------------------------------------------------------------------
(* BuildDirectoryDAG and the map it ranges over *)

\* the Go map from which BuildDirectoryDAG built the directory node d
ItemsOf(d) ==
    [name \in {d.Links[i].Name : i \in 1..Len(d.Links)} |->
        LET l == d.Links[FirstLink(d.Links, name)] IN [cid |-> l.Hash, size |-> l.Size]]

\* C11: BuildDirectoryDAG is deterministic: called again with the same entries
\* (name, cid, size) as the call of a finished multipart upload, it returns the
\* CID that call returned, whatever order the map is ranged over.
C11_DirectoryCidIndependentOfOrder ==
    (Done /\ cur.op = "multipart" /\ cur.cid # << >>) =>
        \A d \in WrittenBy("dir") :
            \A o \in Orders(DOMAIN ItemsOf(d)) :
                BuildDirectoryDAG(Ctx(store), ItemsOf(d), o).cid = cur.cid

-----------------------------------------------------------------------------
(* GetFileData on directories *)

\* the stored node has at least one link with a non-empty name
HasNamedLink(n) == \E i \in 1..Len(n.Links) : n.Links[i].Name # << >>

\* C12: the file reader rejects directories: for every stored node that has a
\* link with a non-empty name, GetFileData returns an error and no bytes.
C12_FileReaderRejectsDirectories ==
    \A key \in DOMAIN store :
        HasNamedLink(Unmarshal(store[key])) => GetFileData(store, key).err # "nil"

-----------------------------------------------------------------------------
(* PutNodeAtPath: paths without a component, roots without a node *)

\* C13: put_at rejects every path that has no non-empty component ("/", "//",
\* "///"): the request gets an error, PutNodeAtPath returns no root and writes
\* nothing to the block store.
C13_ComponentlessPathRejected ==
    (Done /\ cur.op = "put" /\ Len(Components(cur.path)) = 0) =>
        /\ cur.status = 400
        /\ (cur.called => cur.err # "nil")
        /\ cur.newRoot = << >>
        /\ WrittenBy("put") = {}

\* the store of the call, with the empty node in it
WithEmptyNode(st) == AddNode(Ctx(st), EmptyNode).ctx.st

\* C14: when the root of a put is absent from the block store, PutNodeAtPath
\* treats it as the empty node: it succeeds and returns the root it returns
\* when started from the stored empty node.
C14_AbsentRootTreatedAsEmpty ==
    (Done /\ cur.op = "put" /\ cur.called /\ Len(Components(cur.path)) > 0
          /\ cur.root \notin DOMAIN CallStore) =>
        /\ cur.err = "nil"
        /\ cur.newRoot = PutNodeAtPath(Ctx(WithEmptyNode(CallStore)), Cid(EmptyNode),
                                       cur.path, cur.cid, cur.size).cid

-----------------------------------------------------------------------------
(* ResolvePath and the path syntax *)

\* the components of a path by the path syntax: what lies between the slashes,
\* the empty pieces left out
SyntaxComponents(path) == SelectSeq(Split(path, 1, << >>, << >>), NonEmptyComponent)

\* paths handed to ResolvePath: those of the requests, and others with and
\* without leading, trailing and repeated slashes
WalkPaths ==
    TreePaths \cup
    { << >>, <<"a">>, <<"a", "/">>, <<"a", "/", "b">>, <<"/", "a", "/", "b", "/">>,
      <<"/", "/", "a", "/", "/", "b", "/", "/">>, <<"b", "/", "b">>, <<"/", "a", "/", "a">> }

\* roots handed to ResolvePath: the roots the domains are bound to (the
\* demonstration roots are not stored) and the CIDs of the finished request
WalkRoots ==
    {domainMap[d] : d \in DOMAIN domainMap} \cup {cur.cid, cur.root, cur.newRoot}

\* the pairs of different paths with the same component sequence, and the paths
\* without a component
SamePathPairs ==
    {pp \in WalkPaths \X WalkPaths :
        pp[1] # pp[2] /\ SyntaxComponents(pp[1]) = SyntaxComponents(pp[2])}
RootPaths == {p \in WalkPaths : SyntaxComponents(p) = << >>}

\* C15: ResolvePath depends only on the sequence of non-empty components: two
\* paths with the same sequence (differing only in leading, trailing or repeated
\* slashes) resolve to the same result under the same root, and a path with no
\* non-empty component resolves to the root itself.
C15_ResolveByComponentsOnly ==
    Done =>
        \A r \in WalkRoots :
            /\ \A pp \in SamePathPairs :
                  ResolvePath(store, r, pp[1]) = ResolvePath(store, r, pp[2])
            /\ \A p \in RootPaths :
                  ResolvePath(store, r, p) = [err |-> "nil", cid |-> r]

\* a two-component path and a variant of it with repeated slashes resolve to the
\* same stored node, and "//" resolves to the root
C15_Witness ==
    /\ Done
    /\ \E r \in WalkRoots :
          /\ ResolvePath(store, r, <<"/", "a", "/", "b">>).err = "nil"
          /\ ResolvePath(store, r, <<"/", "a", "/", "b">>).cid \in DOMAIN store
          /\ ResolvePath(store, r, <<"/", "/", "a", "/", "/", "b", "/", "/">>)
                 = ResolvePath(store, r, <<"/", "a", "/", "b">>)
          /\ ResolvePath(store, r, <<"/", "/">>) = [err |-> "nil", cid |-> r]

\* the walk as the specification describes it: for each component, the current
\* node must be stored (else NotFound) and have a link of that name (else
\* PathNotFound); the first such link is followed; the node arrived at is not read
RECURSIVE Walk(_, _, _)
Walk(st, c, comps) ==
    IF comps = << >> THEN [err |-> "nil", cid |-> c]
    ELSE IF c \notin DOMAIN st THEN [err |-> "failed to get node", cid |-> << >>]
    ELSE LET links == Unmarshal(st[c]).Links
             named == {i \in 1..Len(links) : links[i].Name = Head(comps)}
         IN  IF named = {} THEN [err |-> "path component not found", cid |-> << >>]
             ELSE Walk(st, links[CHOOSE i \in named : \A j \in named : i <= j].Hash,
                       Tail(comps))

\* C16: ResolvePath fails exactly when, at some non-empty component, the current
\* node is absent from the store (NotFound) or has no link named as the component
\* (PathNotFound); otherwise it follows the first matching link at each step and
\* returns the last link's hash, whether or not that node is stored.
C16_ResolveFailsExactlyOnMissingNodeOrLink ==
    Done =>
        \A r \in WalkRoots : \A p \in WalkPaths :
            ResolvePath(store, r, p) = Walk(store, r, SyntaxComponents(p))

\* a walk succeeds although the node it arrives at is absent from the store, and
\* the first of two links of the same name is the one followed
C16_Witness ==
    /\ Done
    /\ Cid(TwinDir) \in WalkRoots
    /\ ResolvePath(store, Cid(TwinDir), <<"/", "a">>) = [err |-> "nil", cid |-> Cid(DagLeaf)]
    /\ Cid(DagLeaf) \notin DOMAIN store
    /\ ResolvePath(store, Cid(TwinDir), <<"/", "a", "/", "b">>).err = "failed to get node"
    /\ ResolvePath(store, Cid(TwinDir), <<"/", "b", "/", "a">>).err = "path component not found"

-----------------------------------------------------------------------------
(* Chunker.Chunk *)

\* the data of the leaves, concatenated in order
RECURSIVE LeavesData(_)
LeavesData(leaves) ==
    IF leaves = << >> THEN << >> ELSE Head(leaves).Data \o LeavesData(Tail(leaves))

\* the shape of the output of the chunker for input b and chunk size k
ChunkShape(leaves, b, k) ==
    /\ LeavesData(leaves) = b
    /\ \A i \in 1..(Len(leaves) - 1) : Len(leaves[i].Data) = k
    /\ Len(leaves) > 0 => Len(leaves[Len(leaves)].Data) \in 1..k
    /\ b = << >> => leaves = << >>

\* C17: for every input and chunk size, and every way the reader splits the
\* input across Read calls, Chunk returns leaves whose data concatenated equals
\* the input, every leaf but the last of exactly chunk_size bytes, the last of 1
\* to chunk_size bytes, and no leaf for the empty input.
C17_ChunkShapeForEveryReader ==
    cur.op = "chunk" => ChunkShape(cur.leaves, cur.body, chunkSize)

\* the same, for readers that fill the buffer while bytes remain (bytes.Reader)
C17_ChunkShapeForFullReads ==
    (cur.op = "chunk" /\ SelectSeq(cur.reads, NonEmptyRead)
                            = SelectSeq(ReaderReads(cur.body, chunkSize), NonEmptyRead))
        => ChunkShape(cur.leaves, cur.body, chunkSize)

-----------------------------------------------------------------------------
(* BuildDAGFromLeaves: the size it returns *)

\* the sum of the data lengths of leaves[lo..hi]
RECURSIVE DataLength(_, _, _)
DataLength(leaves, lo, hi) ==
    IF lo > hi THEN 0
    ELSE IF lo = hi THEN Len(leaves[lo].Data)
    ELSE DataLength(leaves, lo, (lo + hi) \div 2) + DataLength(leaves, (lo + hi) \div 2 + 1, hi)

\* the leaves the finished upload handed to BuildDAGFromLeaves
UploadedLeaves == Chunk(ReaderReads(cur.body, chunkSize))

\* C18: BuildDAGFromLeaves returns a size equal to the sum of the data lengths
\* of its input leaves, for one leaf, up to Fanout leaves and more than Fanout
\* leaves; for no leaves it stores the empty node and returns that node's CID
\* with size 0.
C18_BuildSizeIsSumOfLeafData ==
    (Done /\ cur.op = "upload") =>
        /\ cur.size = DataLength(UploadedLeaves, 1, Len(UploadedLeaves))
        /\ UploadedLeaves = << >> =>
              /\ cur.cid = Cid(EmptyNode)
              /\ cur.cid \in DOMAIN store
              /\ cur.size = 0

\* an upload of more than Fanout leaves has finished with the size of its body
C18_Witness ==
    /\ Done
    /\ cur.op = "upload"
    /\ Len(UploadedLeaves) > Fanout
    /\ cur.size = Fanout + 1
    /\ cur.cid \in DOMAIN store

-----------------------------------------------------------------------------
(* The contract-backed resolver *)

\* the owner the contract held for the name when the publish request started
OwnerBefore ==
    IF cur.domain \in DOMAIN cur.before THEN cur.before[cur.domain].owner ELSE ZeroAddress

Unauthorized == "not authorized to update this name"
NotRegistered == "domain does not exist"

\* C19: publish fails with Unauthorized exactly when the name has an owner at
\* the authority different from the caller, and with NotRegistered exactly when
\* the name has no owner; in both cases no update is sent and the binding is
\* unchanged; a failure to query the authority is reported as neither.
C19_PublishErrorKinds ==
    (Done /\ cur.op = "publish") =>
        /\ cur.err = Unauthorized <=> OwnerBefore \notin {ZeroAddress, ServerAddress}
        /\ cur.err = NotRegistered <=> OwnerBefore = ZeroAddress
        /\ cur.err \in {Unauthorized, NotRegistered} => (~cur.sent /\ registry = cur.before)
        /\ cur.failOwner => cur.err \notin {Unauthorized, NotRegistered}

\* the same, for requests whose query of the owner was answered
C19_PublishErrorKindsWhenQueryAnswered ==
    (Done /\ cur.op = "publish" /\ ~cur.failOwner) =>
        /\ cur.err = Unauthorized <=> OwnerBefore \notin {ZeroAddress, ServerAddress}
        /\ cur.err = NotRegistered <=> OwnerBefore = ZeroAddress
        /\ cur.err \in {Unauthorized, NotRegistered} => (~cur.sent /\ registry = cur.before)

-----------------------------------------------------------------------------
(* The cache of the contract-backed resolver *)

\* the finished GET by name was answered from the cache
CacheHit == Done /\ cur.op = "get" /\ ~cur.hex /\ cur.fetched /\ cur.resolved.err = "none"

\* what the path of the finished GET resolves to under the root the contract
\* binds to its name
BoundTarget == ResolvePath(store, ResolveCID(registry, cur.domain, FALSE).cid, cur.path)

\* C21: a read of a name through the download handler never serves a CID taken
\* from the cache that differs from what the authority currently binds for the
\* name (every successful publish updates or invalidates the cache entries of
\* the published name).
C21_CacheCoherentWithAuthority ==
    CacheHit => (BoundTarget.err = "nil" /\ cur.target = BoundTarget.cid)

-----------------------------------------------------------------------------
(* Concurrent publishes *)

\* every concurrent call of UpdateMapping has returned
PublishesDone == cur.op = "race" /\ \A p \in Publishers : cur.procs[p].pc = "done"

\* C22: staleness under concurrent publishes is only transient: once all the
\* concurrent publishes to the name have completed, the cache entry of the name,
\* if there is one, equals the CID the authority binds to the name.
C22_CacheEqualsAuthorityAfterPublishes ==
    (PublishesDone /\ RaceName \in DOMAIN cache)
        => (RaceName \in DOMAIN registry /\ cache[RaceName] = registry[RaceName].cid)

-----------------------------------------------------------------------------
(* Direct CID access *)

\* contracts and caches that differ from those of the server in what they hold
\* for the domain and path of the finished GET
AnyRegistry ==
    { << >>, SetBinding(<< >>, cur.domain, OtherAddress, Cid(DagLeaf)) }
AnyCache ==
    { << >>, AddCache(<< >>, cur.domain, cur.path, Cid(DagLeaf)) }

\* the node is a file as DownloadHandler tells files from directories
FileShaped(n) == ~(Len(n.Data) = 0 /\ Len(n.Links) > 0 /\ n.Links[1].Name # << >>)

\* C23: when the name slot of a GET is a 64-character hex string, the download
\* handler uses it as the root CID and consults neither the naming authority nor
\* the cache: the response is the same whatever they hold, and is what walking
\* the path from that root in the block store gives (for the path "/", the file
\* bytes of the root itself).
C23_DirectCidBypassesNaming ==
    (Done /\ cur.op = "get" /\ cur.hex) =>
        /\ cur.resolved.err = "none"
        /\ cur.walked /\ cur.root = cur.domain
        /\ \A reg \in AnyRegistry, ch \in AnyCache, fail \in BOOLEAN :
              DownloadResponse(store, reg, ch, TRUE, cur.domain, cur.path, fail) = cur
        /\ LET p == ResolvePath(store, cur.domain, cur.path)
           IN  /\ p.err # "nil" => (cur.status = 404 /\ ~cur.fetched)
               /\ p.err = "nil" => (cur.fetched /\ cur.target = p.cid)
               /\ (p.err = "nil" /\ p.cid \notin DOMAIN store) => cur.status = 500
               /\ (p.err = "nil" /\ p.cid \in DOMAIN store /\ FileShaped(Unmarshal(store[p.cid]))
                      /\ GetFileData(store, p.cid).err = "nil")
                     => (cur.status = 200 /\ cur.body = GetFileData(store, p.cid).data)
        /\ (cur.path = <<Slash>> /\ cur.domain \in DOMAIN store
               /\ GetFileData(store, cur.domain).err = "nil")
              => (cur.status = 200 /\ cur.body = GetFileData(store, cur.domain).data)

\* a GET of the root CID of an uploaded file with the path "/" returned its bytes
C23_Witness ==
    /\ Done /\ cur.op = "get" /\ cur.hex
    /\ cur.path = <<Slash>>
    /\ cur.status = 200
    /\ cur.body = <<1, 2>>
    /\ cur.domain \notin {registry[n].cid : n \in DOMAIN registry}

-----------------------------------------------------------------------------
(* PUT then GET through the name *)

\* what GET /{name}{path} returns in the current state, and what it returned
\* when the current request started
GetNow(path) == HandlersDownloadResponse(store, domainMap, cur.domain, path)
GetBefore(path) == HandlersDownloadResponse(prevStore, prevMap, cur.domain, path)

Related(p, q) == IsPrefix(Components(p), Components(q)) \/ IsPrefix(Components(q), Components(p))

\* C24: after a successful PUT /{name}/{path} the name is bound to the root the
\* PUT returned, GET /{name}/{path} returns the body just put, and every other
\* path that returned a body before the PUT (neither a prefix nor an extension
\* of the path put) still returns that body.
C24_PutThenGetThroughName ==
    PutOk =>
        /\ ResolveDomainMap(domainMap, cur.domain) = [err |-> "nil", cid |-> cur.newRoot]
        /\ GetNow(cur.path).status = 200
        /\ GetNow(cur.path).body = cur.body
        /\ \A q \in SitePaths :
              (~Related(q, cur.path) /\ GetBefore(q).status = 200)
                  => (GetNow(q).status = 200 /\ GetNow(q).body = GetBefore(q).body)

\* the same, for paths none of whose components is empty
C24_PutThenGetNoEmptyComponent ==
    (Components(cur.path) = splitPath(cur.path)) => C24_PutThenGetThroughName

-----------------------------------------------------------------------------
(* PUT of the contract-backed server *)

\* the PUT was answered 200 and all its effects are done
PutNameOk == Done /\ cur.op = "putname" /\ cur.status = 200

\* C25: after a successful PUT /{name}/{path} with body b of the contract-backed
\* server, the authority binds {name} to a root under which {path} resolves to
\* the content CID of b, and GET /{name}/{path} returns b.
C25_PutRebasesAndPublishesRoot ==
    PutNameOk =>
        /\ cur.site \in DOMAIN registry
        /\ ResolvePath(store, registry[cur.site].cid, cur.path) = [err |-> "nil", cid |-> cur.cid]
        /\ DownloadResponse(store, registry, cache, FALSE, cur.site, cur.path, FALSE).status = 200
        /\ DownloadResponse(store, registry, cache, FALSE, cur.site, cur.path, FALSE).body = cur.body

\* the same with the name registered to the server before the request: the
\* binding of {name} is what it was
C25_PutRebasesRegisteredName ==
    (PutNameOk /\ cur.site \in DOMAIN cur.before) =>
        ResolvePath(store, registry[cur.site].cid, cur.path) = [err |-> "nil", cid |-> cur.cid]

-----------------------------------------------------------------------------
(* Directories created by PutNodeAtPath *)

\* the node stored under the CID
NodeAt(st, c) == GetNode(st, c).node

\* the components c1..ci of the request's path lead nowhere under the root the
\* request started from: one of them is not the name of a link
Missing(i) ==
    Walk(CallStore, cur.root, SubSeq(splitPath(cur.path), 1, i)).err = "path component not found"

\* the directory at c1..ci under the new root
Created(i) == Walk(store, cur.newRoot, SubSeq(splitPath(cur.path), 1, i))

\* C26: when PutNodeAtPath(r, /c1/.../cn, t, s) meets components that do not
\* exist under r, every directory it creates for c1..ci (i < n) holds exactly one
\* link, named c(i+1), and the parent of the leaf holds exactly the link (cn, t, s).
C26_IntermediateDirectoriesCreated ==
    (PutOk /\ Components(cur.path) = splitPath(cur.path)) =>
        \A i \in 1..(Len(splitPath(cur.path)) - 1) :
            Missing(i) =>
                /\ Created(i).err = "nil"
                /\ Created(i).cid \in DOMAIN store
                /\ NodeAt(store, Created(i).cid).Data = << >>
                /\ Len(NodeAt(store, Created(i).cid).Links) = 1
                /\ NodeAt(store, Created(i).cid).Links[1].Name = splitPath(cur.path)[i + 1]
                /\ NodeAt(store, Created(i).cid).Links[1].Hash = Created(i + 1).cid
                /\ (i = Len(splitPath(cur.path)) - 1) =>
                      NodeAt(store, Created(i).cid).Links
                          = <<Link(splitPath(cur.path)[i + 1], cur.cid, cur.size)>>

\* from the empty directory, a put at /a/b/a created /a with the single link b
\* and /a/b with the single link a to the content
C26_Witness ==
    /\ PutOk
    /\ cur.root = Cid(EmptyNode)
    /\ cur.path = <<"/", "a", "/", "b", "/", "a">>
    /\ Missing(1) /\ Missing(2)
    /\ Len(NodeAt(store, Created(1).cid).Links) = 1
    /\ NodeAt(store, Created(1).cid).Links[1].Name = <<"b">>
    /\ NodeAt(store, Created(2).cid).Links = <<Link(<<"a">>, cur.cid, Len(cur.body))>>

-----------------------------------------------------------------------------
(* The spine rewritten by PutNodeAtPath *)

\* the node at the components under the CID, following the first link of each
\* name; the empty node where a link is absent
RECURSIVE SpineNode(_, _, _)
SpineNode(st, c, comps) ==
    IF comps = << >> THEN NodeAt(st, c)
    ELSE IF FirstLink(NodeAt(st, c).Links, Head(comps)) = 0 THEN EmptyNode
    ELSE SpineNode(st, NodeAt(st, c).Links[FirstLink(NodeAt(st, c).Links, Head(comps))].Hash,
                   Tail(comps))

\* the nodes at c1..ci before the call and after it
OldSpine(i) == SpineNode(CallStore, cur.root, SubSeq(splitPath(cur.path), 1, i))
NewSpine(i) == SpineNode(store, cur.newRoot, SubSeq(splitPath(cur.path), 1, i))

\* new is old with the single entry called name replaced in place by an entry
\* of that name, or with such an entry appended when old has none
OneEntryReplaced(old, new, name) ==
    IF \E j \in 1..Len(old) : old[j].Name = name
    THEN /\ Len(new) = Len(old)
         /\ \E j \in 1..Len(old) :
               /\ old[j].Name = name /\ new[j].Name = name
               /\ \A k \in 1..Len(old) : k # j => new[k] = old[k]
    ELSE /\ Len(new) = Len(old) + 1
         /\ new[Len(new)].Name = name
         /\ \A k \in 1..Len(old) : new[k] = old[k]

\* C27: every node PutNodeAtPath writes in place of an existing node has that
\* node's links, in order and with identical name, hash and size, except that
\* the single entry named by the path component of its level is replaced in
\* place, or appended when absent; the call writes at most one node per path
\* component besides the empty placeholder, and no node off the path.
C27_SpineOnlyRewrite ==
    PutOk =>
        /\ \A i \in 0..(Len(splitPath(cur.path)) - 1) :
              OneEntryReplaced(OldSpine(i).Links, NewSpine(i).Links, splitPath(cur.path)[i + 1])
        /\ WrittenBy("put")
              \subseteq {NewSpine(i) : i \in 0..(Len(splitPath(cur.path)) - 1)} \cup {EmptyNode}
        /\ Cardinality(WrittenBy("put") \ {EmptyNode}) <= Len(splitPath(cur.path))

\* the same, for paths none of whose components is empty
C27_SpineOnlyRewriteNoEmptyComponent ==
    (Components(cur.path) = splitPath(cur.path)) => C27_SpineOnlyRewrite

-----------------------------------------------------------------------------
(* The shape of file DAGs *)

\* the hashes of the links of the nodes of a level, in order
RECURSIVE Children(_, _)
Children(st, level) ==
    IF level = << >> THEN << >>
    ELSE Slice([i \in 1..Len(NodeAt(st, Head(level)).Links) |->
                   NodeAt(st, Head(level)).Links[i].Hash])
         \o Children(st, Tail(level))

IsLeaf(n) == n.Links = << >>

\* the levels from this one down to the leaves: every node of a level that is
\* not the leaves' has 1..Fanout links without a name, every node but the last
\* of its level has Fanout of them, and the lowest level is the leaves, in order
RECURSIVE FanoutShaped(_, _, _)
FanoutShaped(st, level, leafCids) ==
    /\ \A i \in 1..Len(level) : level[i] \in DOMAIN st
    /\ IF \A i \in 1..Len(level) : IsLeaf(NodeAt(st, level[i]))
       THEN level = leafCids
       ELSE /\ \A i \in 1..Len(level) :
                 /\ ~IsLeaf(NodeAt(st, level[i]))
                 /\ Len(NodeAt(st, level[i]).Links) \in 1..Fanout
                 /\ \A j \in 1..Len(NodeAt(st, level[i]).Links) :
                       NodeAt(st, level[i]).Links[j].Name = << >>
                 /\ i < Len(level) => Len(NodeAt(st, level[i]).Links) = Fanout
            /\ FanoutShaped(st, Children(st, level), leafCids)

\* the CIDs of the leaves the chunker made of the uploaded body
LeafCids ==
    Slice([i \in 1..Len(Chunk(ReaderReads(cur.body, chunkSize))) |->
              Cid(Chunk(ReaderReads(cur.body, chunkSize))[i])])

\* C28: for every non-empty leaf sequence BuildDAGFromLeaves ends with one root;
\* every non-leaf node reachable from it has between 1 and Fanout links, all
\* without a name, in the order of the children they group; every group of a
\* level but possibly the last holds exactly Fanout children; a single leaf is
\* the root itself.
C28_FanoutStructure ==
    (Done /\ cur.op = "upload" /\ cur.body # << >>) =>
        /\ cur.status = 200
        /\ FanoutShaped(store, <<cur.cid>>, LeafCids)
        /\ Len(LeafCids) = 1 => cur.cid = LeafCids[1]

\* Fanout + 1 leaves: a root over a full group and a group of one
C28_Witness ==
    /\ Done /\ cur.op = "upload"
    /\ Len(LeafCids) = Fanout + 1
    /\ Len(NodeAt(store, cur.cid).Links) = 2
    /\ Len(NodeAt(store, NodeAt(store, cur.cid).Links[1].Hash).Links) = Fanout
    /\ Len(NodeAt(store, NodeAt(store, cur.cid).Links[2].Hash).Links) = 1

-----------------------------------------------------------------------------
(* Failed PUT requests *)

\* C29: when PutHandler of the in-memory server ends a request with an error
\* response, the resolver's mapping is what it was when the request started,
\* also for a name that had no binding.
C29_FailedPutLeavesBindingUnchanged ==
    (Done /\ cur.op = "put" /\ cur.status # 200) => domainMap = prevMap

\* the same, for names that were bound when the request started
C29_FailedPutLeavesBoundNameUnchanged ==
    (Done /\ cur.op = "put" /\ cur.status # 200 /\ cur.domain \in DOMAIN prevMap)
        => domainMap = prevMap

-----------------------------------------------------------------------------
(* Concurrent PUT requests *)

PutsDone == cur.op = "puts" /\ \A p \in Putters : cur.procs[p].pc = "done"

\* the name is bound to the root this request computed, and the request's path
\* resolves to its content under that root
Wins(p) ==
    /\ cur.procs[p].status = 200
    /\ GetMapping(domainMap, SiteName) = [cid |-> cur.procs[p].newRoot, found |-> TRUE]
    /\ ResolvePath(store, cur.procs[p].newRoot, cur.procs[p].path)
           = [err |-> "nil", cid |-> cur.procs[p].cid]

\* C30: when concurrent PUT requests to one name have all completed, whatever
\* the interleaving of their read-binding, put_at and update-binding steps, the
\* name is bound to the root one of them computed, and under it that request's
\* path resolves to that request's content; never to a root none of them computed.
C30_LastWriterWins ==
    (PutsDone /\ \E p \in Putters : cur.procs[p].status = 200) => \E p \in Putters : Wins(p)

\* the same when every request was answered 200
C30_LastWriterWinsAllSucceeded ==
    (PutsDone /\ \A p \in Putters : cur.procs[p].status = 200) => \E p \in Putters : Wins(p)

\* the same when every request was answered 200 and no path has an empty component
C30_LastWriterWinsPlainPaths ==
    (PutsDone /\ \A p \in Putters :
                    /\ cur.procs[p].status = 200
                    /\ Components(cur.procs[p].path) = splitPath(cur.procs[p].path))
        => \E p \in Putters : Wins(p)

\* C30, the part about torn roots: once a request was answered 200, the name is
\* bound to a root some request computed
C30_BoundToComputedRoot ==
    (PutsDone /\ \E p \in Putters : cur.procs[p].status = 200)
        => \E p \in Putters :
              /\ cur.procs[p].status = 200
              /\ GetMapping(domainMap, SiteName).cid = cur.procs[p].newRoot

=============================================================================
